---- MODULE Spec2Model ----
(***************************************************************************)
(* Model of the oxc_traverse code generators (ancestor types, walk         *)
(* functions, Traverse trait) and of the traversal the generated walk      *)
(* functions perform over a syntax tree.                                   *)
(*                                                                         *)
(* A type name with its generic wrappers, e.g. Option<Vec<Statement>>, is  *)
(* the sequence <<"Option", "Vec", "Statement">>.  The catalogue `types`   *)
(* is the sequence of type definitions in insertion order, which is the    *)
(* order Object.values(types) iterates in.                                 *)
(***************************************************************************)
EXTENDS Integers, Sequences, FiniteSets, TLC

\* Depth of the trees walked (number of nested struct/enum nodes below the root).
MaxDepth == 4
\* Length of the sequences (Vec) in the trees of the AST catalogue.
MaxLen == 1
\* Length of the sequences (Vec) in the trees of the catalogues of one struct.
MaxItems == 2
\* Length of the work list `inheritedFrom` up to which the loop over it is
\* followed; a work list that grows past it belongs to a loop that appends
\* to the list in every iteration and has no end.
MaxInheritedFrom == 6
\* Number of tagged fields of the largest of the catalogues that the
\* ancestor types are generated for to see the discriminants.
MaxTags == 257

(***************************************************************************)
(* Type catalogue                                                          *)
(***************************************************************************)

\* parse.mjs: fields.push({name, type, rawName, rawType}); offsetVarName and
\* ancestorDiscriminant are the properties generateAncestorsCode adds later
\* (<<>> and -1 stand for JavaScript's undefined).
Field(name, type) ==
    [name |-> name, type |-> type, rawName |-> name, rawType |-> type,
     offsetVarName |-> <<>>, ancestorDiscriminant |-> -1]

\* parse.mjs: variants.push({name, type, discriminant})
Variant(name, type) == [name |-> name, type |-> type]

\* parse.mjs: types[name] = {kind: 'struct', name, hasLifetime, fields}
Struct(name, fields) ==
    [kind |-> "struct", name |-> name, fields |-> fields,
     variants |-> <<>>, inherits |-> <<>>]

\* parse.mjs: types[name] = {kind: 'enum', name, hasLifetime, variants, inherits}
Enum(name, variants, inherits) ==
    [kind |-> "enum", name |-> name, fields |-> <<>>,
     variants |-> variants, inherits |-> inherits]

\* `name in types`
HasType(ts, name) == \E i \in 1..Len(ts) : ts[i].name = name

\* `types[name]` for a name in the catalogue
Lookup(ts, name) == ts[CHOOSE i \in 1..Len(ts) : ts[i].name = name]

\* utils.mjs typeAndWrappers: peel the generic wrappers off a type name
typeAndWrappers(type) ==
    [name |-> type[Len(type)], wrappers |-> SubSeq(type, 1, Len(type) - 1)]

\* utils.mjs unwrapTypeName
unwrapTypeName(type) == typeAndWrappers(type).name

\* field.innerTypeName, as read by generateAncestorsCode
innerTypeName(field) == unwrapTypeName(field.type)

\* Range of a sequence
Range(s) == {s[i] : i \in 1..Len(s)}

\* Concatenation of a sequence of sequences (Array.join / +=)
RECURSIVE Flatten(_)
Flatten(ss) == IF ss = <<>> THEN <<>> ELSE Head(ss) \o Flatten(Tail(ss))

(***************************************************************************)
(* generateAncestorsCode                                                   *)
(***************************************************************************)

\* `OFFSET_${typeScreamingName}_${field.name.toUpperCase()}`
OffsetVarName(type, field) == <<"OFFSET", type.name, field.name>>

\* The loop over type.fields that sets field.offsetVarName
withOffsetVarNames(type) ==
    [j \in 1..Len(type.fields) |->
        [type.fields[j] EXCEPT !.offsetVarName = OffsetVarName(type, type.fields[j])]]

\* `pub(crate) const ${offsetVarName}: usize = offset_of!(${type.name}, ${field.rawName});`
offsetConsts(type) ==
    [j \in 1..Len(type.fields) |->
        [name |-> OffsetVarName(type, type.fields[j]),
         type |-> type.name, field |-> type.fields[j].rawName]]

\* Mutant of methodsCode: the `continue` for the tagged field itself is missing.
methodsCodeNoSkip(fields, j) ==
    [k \in 1..Len(fields) |->
        [name |-> fields[k].rawName, offsetVarName |-> fields[k].offsetVarName]]

\* methodsCode: one accessor per other field of the struct, reading at
\* (self.0 as *const u8).add(otherField.offsetVarName)
methodsCode(fields, j) ==
    [k \in 1..(Len(fields) - 1) |->
        LET otherField == fields[IF k < j THEN k ELSE k + 1] IN
        [name |-> otherField.rawName, offsetVarName |-> otherField.offsetVarName]]

\* (variantNamesForEnums[fieldTypeName] || (variantNamesForEnums[fieldTypeName] = []))
\*     .push(variantName)
pushVariantNameForEnum(vnfe, fieldTypeName, variantName) ==
    IF \E i \in 1..Len(vnfe) : vnfe[i].enum = fieldTypeName
    THEN [i \in 1..Len(vnfe) |->
            IF vnfe[i].enum = fieldTypeName
            THEN [vnfe[i] EXCEPT !.names = Append(@, variantName)]
            ELSE vnfe[i]]
    ELSE Append(vnfe, [enum |-> fieldTypeName, names |-> <<variantName>>])

\* The loop `for (const field of type.fields)` that creates one Ancestor
\* variant per field whose inner type is in the catalogue.  acc.fields are
\* the fields of the struct being processed.
RECURSIVE ancestorFieldLoop(_, _, _, _)
ancestorFieldLoop(ts, type, j, acc) ==
    IF j > Len(acc.fields) THEN acc
    ELSE LET field == acc.fields[j]
             fieldTypeName == innerTypeName(field)
         IN  IF ~HasType(ts, fieldTypeName)
             THEN ancestorFieldLoop(ts, type, j + 1, acc)
             ELSE
               LET variantName == <<type.name, field.name>>
                   next ==
                     [acc EXCEPT
                        !.ancestorStructs = Append(@,
                            [name |-> variantName, type |-> type.name,
                             methods |-> methodsCode(acc.fields, j)]),
                        !.variantNames = Append(@, variantName),
                        !.enumVariants = Append(@,
                            [name |-> variantName, discriminant |-> acc.discriminant]),
                        !.fields[j].ancestorDiscriminant = acc.discriminant,
                        !.discriminant = acc.discriminant + 1,
                        !.variantNamesForEnums =
                            IF Lookup(ts, fieldTypeName).kind = "enum"
                            THEN pushVariantNameForEnum(@, fieldTypeName, variantName)
                            ELSE @]
               IN  ancestorFieldLoop(ts, type, j + 1, next)

\* Mutant of isFunction: only the first variant is matched.
isFunctionFirstOnly(name, variantNames) ==
    [name |-> name, variants |-> <<variantNames[1]>>]

\* pub fn is_..(&self) -> bool { matches!(self, Self::V1(_) | Self::V2(_) ..) }
isFunction(name, variantNames) == [name |-> name, variants |-> variantNames]

\* The loop `for (const type of Object.values(types))`
RECURSIVE ancestorTypeLoop(_, _, _)
ancestorTypeLoop(ts, i, acc) ==
    IF i > Len(ts) THEN acc
    ELSE IF ts[i].kind = "enum" THEN ancestorTypeLoop(ts, i + 1, acc)
    ELSE
      LET type == ts[i]
          start == [acc EXCEPT !.fields = withOffsetVarNames(type),
                               !.variantNames = <<>>,
                               !.offsetConsts = @ \o offsetConsts(type)]
          done == ancestorFieldLoop(ts, type, 1, start)
          out == [done EXCEPT
                    !.types[i].fields = done.fields,
                    !.isFunctions =
                        IF Len(done.variantNames) > 0
                        THEN Append(@, isFunction(<<"is", type.name>>, done.variantNames))
                        ELSE @]
      IN  ancestorTypeLoop(ts, i + 1, out)

\* Mutant of discriminantType: the limit is off by one.
discriminantTypeOffByOne(discriminant) == IF discriminant <= 257 THEN "u8" ELSE "u16"

\* const discriminantType = discriminant <= 256 ? 'u8' : 'u16';
discriminantType(discriminant) == IF discriminant <= 256 THEN "u8" ELSE "u16"

generateAncestorsCode(ts) ==
    LET acc == ancestorTypeLoop(ts, 1,
                   [types |-> ts, discriminant |-> 1, enumVariants |-> <<>>,
                    isFunctions |-> <<>>, ancestorStructs |-> <<>>,
                    offsetConsts |-> <<>>, variantNamesForEnums |-> <<>>,
                    variantNames |-> <<>>, fields |-> <<>>])
        isVia == [k \in 1..Len(acc.variantNamesForEnums) |->
                    isFunction(<<"is_via", acc.variantNamesForEnums[k].enum>>,
                               acc.variantNamesForEnums[k].names)]
    IN  [types |-> acc.types,
         discriminantType |-> discriminantType(acc.discriminant),
         enumVariants |-> <<[name |-> <<"None">>, discriminant |-> 0]>> \o acc.enumVariants,
         isFunctions |-> acc.isFunctions \o isVia,
         offsetConsts |-> acc.offsetConsts,
         ancestorStructs |-> acc.ancestorStructs]

(***************************************************************************)
(* Generated walk code.  A walk function is a sequence of instructions;    *)
(* every instruction is one statement of the Rust text the templates emit. *)
(*   enter/exit      traverser.enter_X(&mut *node, ctx) / exit_X           *)
(*   push            ctx.push_stack(Ancestor::TF(ancestor::TWithoutF(node)))*)
(*   retag           ctx.retag_stack(disc)                                  *)
(*   pop             ctx.pop_stack()                                        *)
(*   ifSome          if let Some(field) = fieldCode { the next `skip` }     *)
(*   walk            walk_X(traverser, place, ctx)                          *)
(*   walkEach        for item in place.iter_mut()[.flatten()] { walk_X }    *)
(*   walkStatements  walk_statements(traverser, place, ctx)                 *)
(*   match           match &mut *node { arms }                              *)
(*   todo            todo!(..)      eachTodo   for item in .. { todo!(..) } *)
(* `off` is the offset constant the place is computed from and `via` the   *)
(* dereferences applied to it ("some": the payload bound by if-let,        *)
(* "box": the dereference of a Box).                                       *)
(***************************************************************************)
Instr(op) ==
    [op |-> op, fn |-> "", off |-> <<>>, via |-> <<>>, disc |-> -1, skip |-> 0,
     flatten |-> FALSE, arms |-> <<>>, variant |-> <<>>]

Enter(name) == [Instr("enter") EXCEPT !.fn = name]
Exit(name) == [Instr("exit") EXCEPT !.fn = name]
Push(variantName) == [Instr("push") EXCEPT !.variant = variantName]
Retag(disc) == [Instr("retag") EXCEPT !.disc = disc]
Pop == Instr("pop")
IfSome(off, skip) == [Instr("ifSome") EXCEPT !.off = off, !.skip = skip]
Walk(fn, off, via) == [Instr("walk") EXCEPT !.fn = fn, !.off = off, !.via = via]
WalkEach(fn, off, via, flatten) ==
    [Instr("walkEach") EXCEPT !.fn = fn, !.off = off, !.via = via, !.flatten = flatten]
WalkStatements(off, via) == [Instr("walkStatements") EXCEPT !.off = off, !.via = via]
Match(arms) == [Instr("match") EXCEPT !.arms = arms]
Todo == Instr("todo")
EachTodo(off, via) == [Instr("eachTodo") EXCEPT !.off = off, !.via = via]

\* Result of a piece of generation: the code, a thrown AssertionError, or no
\* result at all because a loop of the generator does not come to an end
Ok(code) == [ok |-> TRUE, code |-> code, loops |-> FALSE]
Thrown == [ok |-> FALSE, code |-> <<>>, loops |-> FALSE]
Unbounded == [ok |-> FALSE, code |-> <<>>, loops |-> TRUE]

\* type.fields.filter(field => unwrapTypeName(field.type) in types)
visitedFields(type, ts) ==
    SelectSeq(type.fields, LAMBDA field : HasType(ts, unwrapTypeName(field.type)))

\* Mutant of retagCode: the discriminant is off by one, so a field is
\* retagged with the tag of the Ancestor variant declared before its own.
retagCodeOffByOne(field, index) ==
    IF index = 1 THEN <<>> ELSE <<Retag(field.ancestorDiscriminant - 1)>>

\* retagCode = index === 0 ? '' : `ctx.retag_stack(${field.ancestorDiscriminant});`
\* (index counts the visited fields from 1 here)
retagCode(field, index) ==
    IF index = 1 THEN <<>> ELSE <<Retag(field.ancestorDiscriminant)>>

\* Mutant of optionFieldCode: the retag is emitted before the `if let`.
optionFieldCodeRetagOutside(off, retag, walkCode) ==
    retag \o <<IfSome(off, Len(walkCode))>> \o walkCode

\* if let Some(field) = &mut *(${fieldCode}) { ${retagCode} ${walkCode} }
optionFieldCode(off, retag, walkCode) ==
    <<IfSome(off, Len(retag) + Len(walkCode))>> \o retag \o walkCode

\* generateWalkForStruct: the callback of visitedFields.map((field, index) => ..)
walkFieldCode(field, index) ==
    LET tw == typeAndWrappers(field.type)
        fieldTypeName == tw.name
        fieldTypeWrappers == tw.wrappers
        retag == retagCode(field, index)
        off == field.offsetVarName
    IN
    IF Len(fieldTypeWrappers) > 0 /\ fieldTypeWrappers[1] = "Option" THEN
        LET remainingWrappers == Tail(fieldTypeWrappers)
            walkCode ==
                IF remainingWrappers = <<"Vec">> THEN
                    IF fieldTypeName = "Statement"
                    THEN Ok(<<WalkStatements(off, <<"some">>)>>)
                    ELSE Ok(<<WalkEach(fieldTypeName, off, <<"some">>, FALSE)>>)
                ELSE IF remainingWrappers = <<"Box">> THEN
                    Ok(<<Walk(fieldTypeName, off, <<"some", "box">>)>>)
                ELSE IF Len(remainingWrappers) # 0 THEN Thrown
                ELSE Ok(<<Walk(fieldTypeName, off, <<"some">>)>>)
        IN  IF ~walkCode.ok THEN Thrown
            ELSE Ok(optionFieldCode(off, retag, walkCode.code))
    ELSE IF Len(fieldTypeWrappers) > 0 /\ fieldTypeWrappers[1] = "Vec" THEN
        LET remainingWrappers == Tail(fieldTypeWrappers) IN
        IF Len(remainingWrappers) = 0 /\ fieldTypeName = "Statement"
        THEN Ok(retag \o <<WalkStatements(off, <<>>)>>)
        ELSE IF remainingWrappers = <<"Option">>
        THEN Ok(retag \o <<WalkEach(fieldTypeName, off, <<>>, TRUE)>>)
        ELSE IF Len(remainingWrappers) # 0 THEN Thrown
        ELSE Ok(retag \o <<WalkEach(fieldTypeName, off, <<>>, FALSE)>>)
    ELSE IF fieldTypeWrappers = <<"Box">> THEN
        Ok(retag \o <<Walk(fieldTypeName, off, <<"box">>)>>)
    ELSE IF Len(fieldTypeWrappers) # 0 THEN Thrown
    ELSE Ok(retag \o <<Walk(fieldTypeName, off, <<>>)>>)

\* Mutant of pushCode: the push is emitted only when a second visited field
\* needs the stack entry.
pushCodeOnlyForSeveral(type, visited) ==
    IF Len(visited) > 1 THEN <<Push(<<type.name, visited[1].name>>)>> ELSE <<>>

\* fieldsCodes.unshift(`ctx.push_stack(Ancestor::${type.name}${fieldCamelName}(..))`)
pushCode(type, visited) ==
    IF Len(visited) > 0 THEN <<Push(<<type.name, visited[1].name>>)>> ELSE <<>>

\* Mutant of popCode: the closing pop is not emitted.
popCodeMissing(visited) == <<>>

\* fieldsCodes.push('ctx.pop_stack();')
popCode(visited) == IF Len(visited) > 0 THEN <<Pop>> ELSE <<>>

\* Mutant of structBody: the fields are emitted in reverse order.
structBodyReversed(type, visited, fieldsCodes) ==
    <<Enter(type.name)>> \o pushCode(type, visited)
        \o Flatten([k \in 1..Len(fieldsCodes) |->
                        fieldsCodes[Len(fieldsCodes) + 1 - k].code])
        \o popCode(visited) \o <<Exit(type.name)>>

\* Mutant of structBody: the enter hook is called after the push and the
\* exit hook before the pop.
structBodyHooksInside(type, visited, fieldsCodes) ==
    pushCode(type, visited) \o <<Enter(type.name)>>
        \o Flatten([k \in 1..Len(fieldsCodes) |-> fieldsCodes[k].code])
        \o <<Exit(type.name)>> \o popCode(visited)

\* The template of walk_${snakeName}: enter, fieldsCodes.join('\n'), exit
structBody(type, visited, fieldsCodes) ==
    <<Enter(type.name)>> \o pushCode(type, visited)
        \o Flatten([k \in 1..Len(fieldsCodes) |-> fieldsCodes[k].code])
        \o popCode(visited) \o <<Exit(type.name)>>

generateWalkForStruct(type, ts) ==
    LET visited == visitedFields(type, ts)
        fieldsCodes == [k \in 1..Len(visited) |-> walkFieldCode(visited[k], k)]
    IN  IF \E k \in 1..Len(visited) : ~fieldsCodes[k].ok THEN Thrown
        ELSE Ok(structBody(type, visited, fieldsCodes))

(***************************************************************************)
(* generateWalkForEnum                                                     *)
(***************************************************************************)

\* One arm of the generated `match`: `Type::V1(_) | Type::V2(_) => body`.
\* An arm for an own variant binds the payload ("payload" in via); an arm for
\* an inherited enum passes the enum node itself, cast to the inherited type.
Arm(patterns, fn, via) ==
    [patterns |-> patterns, fn |-> fn, via |-> via, todo |-> FALSE, wild |-> FALSE]
TodoArm(patterns) ==
    [patterns |-> patterns, fn |-> "", via |-> <<>>, todo |-> TRUE, wild |-> FALSE]
WildTodoArm ==
    [patterns |-> <<>>, fn |-> "", via |-> <<>>, todo |-> TRUE, wild |-> TRUE]

\* type.variants.map((variant) => ..) of generateWalkForEnum
walkVariantCode(variant, ts) ==
    LET tw == typeAndWrappers(variant.type)
        variantTypeName == tw.name
        fieldTypeWrappers == tw.wrappers
    IN  IF ~HasType(ts, variantTypeName) THEN Thrown
        ELSE IF fieldTypeWrappers = <<"Box">>
        THEN Ok(<<Arm(<<variant.name>>, variantTypeName, <<"payload", "box">>)>>)
        ELSE IF Len(fieldTypeWrappers) # 0 THEN Thrown
        ELSE Ok(<<Arm(<<variant.name>>, variantTypeName, <<"payload">>)>>)

\* Mutant of nestedInherits: inherited enums of an inherited enum are not followed.
nestedInheritsIgnored(inheritedType) == <<>>

\* inheritedFrom.push(...inheritedType.inherits)
nestedInherits(inheritedType) == inheritedType.inherits

\* for (let i = 0; i < inheritedFrom.length; i++) { .. }: the work list of
\* inherited enums; acc collects variantMatches and missingVariants.  The
\* loop has no record of the enums it has been through: an enum that is
\* reached again is appended and processed again.
RECURSIVE inheritedFromLoop(_, _, _, _)
inheritedFromLoop(ts, inheritedFrom, i, acc) ==
    IF i > Len(inheritedFrom) THEN acc
    ELSE IF Len(inheritedFrom) > MaxInheritedFrom THEN [acc EXCEPT !.unbounded = TRUE]
    ELSE LET inheritedTypeName == inheritedFrom[i] IN
         IF ~HasType(ts, inheritedTypeName)
                \/ Lookup(ts, inheritedTypeName).kind # "enum"
         THEN inheritedFromLoop(ts, inheritedFrom, i + 1,
                  [acc EXCEPT !.missingVariants = Append(@, inheritedTypeName)])
         ELSE LET inheritedType == Lookup(ts, inheritedTypeName) IN
              inheritedFromLoop(ts, inheritedFrom \o nestedInherits(inheritedType), i + 1,
                  [acc EXCEPT !.variantMatches = @ \o
                      [k \in 1..Len(inheritedType.variants) |->
                          inheritedType.variants[k].name]])

\* for (const inheritedTypeName of type.inherits) { .. variantCodes.push(..) }
RECURSIVE inheritsLoop(_, _, _, _)
inheritsLoop(ts, type, n, acc) ==
    IF n > Len(type.inherits) THEN acc
    ELSE LET inheritedTypeName == type.inherits[n]
             r == inheritedFromLoop(ts, <<inheritedTypeName>>, 1,
                      [variantMatches |-> <<>>, missingVariants |-> acc.missingVariants,
                       unbounded |-> FALSE])
         IN  IF r.unbounded THEN [acc EXCEPT !.unbounded = TRUE]
             ELSE inheritsLoop(ts, type, n + 1,
                 [arms |-> Append(acc.arms, Arm(r.variantMatches, inheritedTypeName, <<>>)),
                  missingVariants |-> r.missingVariants,
                  unbounded |-> FALSE])

\* The state of the loop over type.inherits before its first iteration
noInherited == [arms |-> <<>>, missingVariants |-> <<>>, unbounded |-> FALSE]

\* Mutant of enumBody: the enum routine pushes an entry around its match.
enumBodyPushing(type, arms) ==
    <<Enter(type.name), Push(<<"None">>), Match(arms), Pop, Exit(type.name)>>

\* Mutant of enumBody: the match is run a second time.
enumBodyMatchTwice(type, arms) ==
    <<Enter(type.name), Match(arms), Match(arms), Exit(type.name)>>

\* The template of walk_${snakeName} of an enum: enter, match, exit
enumBody(type, arms) == <<Enter(type.name), Match(arms), Exit(type.name)>>

generateWalkForEnum(type, ts) ==
    LET variantCodes == [k \in 1..Len(type.variants) |->
                            walkVariantCode(type.variants[k], ts)]
        inherited == inheritsLoop(ts, type, 1, noInherited)
    IN  IF \E k \in 1..Len(variantCodes) : ~variantCodes[k].ok THEN Thrown
        ELSE IF inherited.unbounded THEN Unbounded
        ELSE IF Len(inherited.missingVariants) # 0 THEN Thrown
        ELSE Ok(enumBody(type,
                         Flatten([k \in 1..Len(variantCodes) |-> variantCodes[k].code])
                            \o inherited.arms))

\* Mutant of walk_statements: exit_statements is called before the loop.
walk_statementsExitFirst ==
    <<Enter("statements"), Exit("statements"), WalkEach("Statement", <<>>, <<>>, FALSE)>>

\* pub(crate) unsafe fn walk_statements(..)
walk_statements ==
    <<Enter("statements"), WalkEach("Statement", <<>>, <<>>, FALSE), Exit("statements")>>

\* The generated module: walk function name -> body
walkFunctions(ts, codes) ==
    [name \in {ts[i].name : i \in 1..Len(ts)} \cup {"statements"} |->
        IF name = "statements" THEN walk_statements
        ELSE codes[CHOOSE i \in 1..Len(ts) : ts[i].name = name].code]

\* for (const type of Object.values(types)) { walkMethods += .. }: the types
\* are processed in order, so the first type whose generation does not
\* return decides how the generator ends
walkMethods(ts, codes) ==
    IF \A i \in 1..Len(ts) : codes[i].ok
    THEN [ok |-> TRUE, fns |-> walkFunctions(ts, codes), loops |-> FALSE]
    ELSE LET first == CHOOSE i \in 1..Len(ts) :
                        ~codes[i].ok /\ \A h \in 1..(i - 1) : codes[h].ok
         IN  [ok |-> FALSE, fns |-> <<>>, loops |-> codes[first].loops]

\* generateWalkFunctionsCode of the generator that asserts
generateWalkFunctionsCode(ts) ==
    walkMethods(ts, [i \in 1..Len(ts) |->
                        IF ts[i].kind = "struct" THEN generateWalkForStruct(ts[i], ts)
                        ELSE generateWalkForEnum(ts[i], ts)])

(***************************************************************************)
(* generateWalkFunctionsCode of the generator that inserts todo!()         *)
(***************************************************************************)

\* The callback of visitedFields.map((field, index) => ..)
walkFieldCodeTodo(field, index) ==
    LET tw == typeAndWrappers(field.type)
        fieldTypeName == tw.name
        fieldTypeWrappers == tw.wrappers
        retag == retagCode(field, index)
        off == field.offsetVarName
    IN
    IF Len(fieldTypeWrappers) > 0 /\ fieldTypeWrappers[1] = "Option" THEN
        LET remainingWrappers == Tail(fieldTypeWrappers)
            walkCode ==
                IF remainingWrappers = <<"Vec">> THEN
                    IF fieldTypeName = "Statement"
                    THEN <<WalkStatements(off, <<"some">>)>>
                    ELSE <<WalkEach(fieldTypeName, off, <<"some">>, FALSE)>>
                ELSE IF remainingWrappers = <<"Box">> THEN
                    <<Walk(fieldTypeName, off, <<"some", "box">>)>>
                ELSE IF Len(remainingWrappers) > 0 THEN <<Todo>>
                ELSE <<Walk(fieldTypeName, off, <<"some">>)>>
        IN  optionFieldCode(off, retag, walkCode)
    ELSE IF Len(fieldTypeWrappers) > 0 /\ fieldTypeWrappers[1] = "Vec" THEN
        LET remainingWrappers == Tail(fieldTypeWrappers) IN
        IF Len(remainingWrappers) = 0 /\ fieldTypeName = "Statement"
        THEN retag \o <<WalkStatements(off, <<>>)>>
        ELSE IF remainingWrappers = <<"Option">>
        THEN retag \o <<WalkEach(fieldTypeName, off, <<>>, TRUE)>>
        ELSE IF Len(remainingWrappers) > 0 THEN retag \o <<EachTodo(off, <<>>)>>
        ELSE retag \o <<WalkEach(fieldTypeName, off, <<>>, FALSE)>>
    ELSE IF fieldTypeWrappers = <<"Box">> THEN
        retag \o <<Walk(fieldTypeName, off, <<"box">>)>>
    ELSE IF Len(fieldTypeWrappers) > 0 THEN <<Todo>>
    ELSE retag \o <<Walk(fieldTypeName, off, <<>>)>>

\* The struct branch of the loop over the types
walkStructTodo(type, ts) ==
    LET visited == visitedFields(type, ts)
        fieldsCodes == [k \in 1..Len(visited) |-> Ok(walkFieldCodeTodo(visited[k], k))]
    IN  structBody(type, visited, fieldsCodes)

\* type.variants.map((variant) => ..) of the enum branch
walkVariantCodeTodo(variant, ts) ==
    LET tw == typeAndWrappers(variant.type)
        variantTypeName == tw.name
        fieldTypeWrappers == tw.wrappers
    IN  IF HasType(ts, variantTypeName) /\ fieldTypeWrappers = <<"Box">>
        THEN Arm(<<variant.name>>, variantTypeName, <<"payload", "box">>)
        ELSE IF HasType(ts, variantTypeName) /\ Len(fieldTypeWrappers) = 0
        THEN Arm(<<variant.name>>, variantTypeName, <<"payload">>)
        ELSE TodoArm(<<variant.name>>)

\* The enum branch of the loop over the types
walkEnumTodo(type, ts) ==
    LET variantCodes == [k \in 1..Len(type.variants) |->
                            walkVariantCodeTodo(type.variants[k], ts)]
        inherited == inheritsLoop(ts, type, 1, noInherited)
        missing == IF Len(inherited.missingVariants) > 0 THEN <<WildTodoArm>> ELSE <<>>
    IN  IF inherited.unbounded THEN Unbounded
        ELSE Ok(enumBody(type, variantCodes \o inherited.arms \o missing))

generateWalkFunctionsCodeTodo(ts) ==
    walkMethods(ts, [i \in 1..Len(ts) |->
                        IF ts[i].kind = "struct" THEN Ok(walkStructTodo(ts[i], ts))
                        ELSE walkEnumTodo(ts[i], ts)])

(***************************************************************************)
(* Catalogues the generators are run on                                    *)
(***************************************************************************)
Span == Field("span", <<"Span">>)

\* A cut of the JavaScript AST: expressions with an enum that inherits
\* through two levels (Argument -> Expression -> MemberExpression),
\* statements, and fields with every supported wrapper combination.
AstCatalogue ==
    << Struct("IdentifierReference", <<Span, Field("name", <<"Atom">>)>>),
       Struct("BinaryExpression",
              <<Span, Field("left", <<"Expression">>),
                Field("operator", <<"BinaryOperator">>),
                Field("right", <<"Expression">>)>>),
       Struct("StaticMemberExpression",
              <<Span, Field("property", <<"IdentifierReference">>),
                Field("optional", <<"bool">>)>>),
       Enum("MemberExpression",
            <<Variant("StaticMemberExpression", <<"Box", "StaticMemberExpression">>)>>,
            <<>>),
       Enum("Expression",
            <<Variant("Identifier", <<"Box", "IdentifierReference">>),
              Variant("BinaryExpression", <<"Box", "BinaryExpression">>)>>,
            <<"MemberExpression">>),
       Struct("SpreadElement", <<Span, Field("argument", <<"Expression">>)>>),
       Enum("Argument",
            <<Variant("SpreadElement", <<"Box", "SpreadElement">>)>>,
            <<"Expression">>),
       Struct("ArrayExpression",
              <<Span, Field("elements", <<"Vec", "Option", "Argument">>)>>),
       Struct("ExpressionStatement", <<Span, Field("expression", <<"Expression">>)>>),
       Enum("Statement",
            <<Variant("ExpressionStatement", <<"Box", "ExpressionStatement">>)>>,
            <<>>),
       Struct("BlockStatement", <<Span, Field("body", <<"Vec", "Statement">>)>>),
       Struct("TryStatement",
              <<Span, Field("block", <<"Option", "Vec", "Statement">>),
                Field("handler", <<"Option", "Box", "IdentifierReference">>),
                Field("finalizer", <<"Option", "Vec", "Statement">>)>>) >>

Wrappers == {"Option", "Vec", "Box"}

\* Every wrapper chain of at most two wrappers.
WrapperChains ==
    {<<>>} \cup {<<a>> : a \in Wrappers} \cup {<<a, b>> : a \in Wrappers, b \in Wrappers}

\* Inner type names used by the small catalogues: a catalogued struct and a
\* name that is neither catalogued nor one of the terminal types.
InnerNames == {"IdentifierReference", "Undeclared"}

\* A struct with one plain descendable field and one field of the given type.
HolderCatalogue(type) ==
    << Struct("IdentifierReference", <<Span, Field("name", <<"Atom">>)>>),
       Struct("Holder",
              <<Span, Field("first", <<"IdentifierReference">>), Field("item", type)>>) >>

\* An enum with one variant of the given payload type.
ChoiceCatalogue(type) ==
    << Struct("IdentifierReference", <<Span, Field("name", <<"Atom">>)>>),
       Enum("Choice", <<Variant("Item", type)>>, <<>>) >>

\* What the `inherits` list of an enum of the small catalogues may name: an
\* enum of the catalogue, a struct of the catalogue, a name that is not in
\* the catalogue.
InheritedNames == {"Base", "Derived", "IdentifierReference", "Absent"}

\* A struct field of enum type Derived; Derived inherits `inheritsDerived`
\* and the enum Base inherits `inheritsBase`.
InheritCatalogue(inheritsDerived, inheritsBase) ==
    << Struct("IdentifierReference", <<Span, Field("name", <<"Atom">>)>>),
       Enum("Base",
            <<Variant("Identifier", <<"Box", "IdentifierReference">>)>>, inheritsBase),
       Enum("Derived",
            <<Variant("Reference", <<"Box", "IdentifierReference">>)>>, inheritsDerived),
       Struct("Holder", <<Span, Field("item", <<"Derived">>)>>) >>

\* A struct with one plain descendable field and one field that is a
\* sequence of statements, plain or optional.
StatementsCatalogue(wrappers) ==
    << Struct("IdentifierReference", <<Span, Field("name", <<"Atom">>)>>),
       Enum("Statement",
            <<Variant("Identifier", <<"Box", "IdentifierReference">>)>>, <<>>),
       Struct("Holder",
              <<Span, Field("first", <<"IdentifierReference">>),
                Field("item", wrappers \o <<"Statement">>)>>) >>

\* An enum that inherits two enums which both inherit a third.
DiamondCatalogue ==
    << Struct("IdentifierReference", <<Span, Field("name", <<"Atom">>)>>),
       Enum("Common", <<Variant("Identifier", <<"Box", "IdentifierReference">>)>>, <<>>),
       Enum("Left",
            <<Variant("LeftItem", <<"Box", "IdentifierReference">>)>>, <<"Common">>),
       Enum("Right",
            <<Variant("RightItem", <<"Box", "IdentifierReference">>)>>, <<"Common">>),
       Enum("Top", <<>>, <<"Left", "Right">>) >>

Catalogues ==
    {AstCatalogue, DiamondCatalogue}
        \cup {StatementsCatalogue(w) : w \in {<<"Vec">>, <<"Option", "Vec">>}}
        \cup {HolderCatalogue(w \o <<n>>) : w \in WrapperChains, n \in InnerNames}
        \cup {HolderCatalogue(<<"Vec", "Option", "Box", "IdentifierReference">>)}
        \cup {ChoiceCatalogue(w \o <<n>>) : w \in WrapperChains, n \in InnerNames}
        \cup {InheritCatalogue(d, b) :
                d \in {<<n>> : n \in InheritedNames},
                b \in {<<>>} \cup {<<n>> : n \in InheritedNames}}

\* Number of fields of the structs of the catalogues with many tags
WideFields == 16

\* A struct whose `n` fields all are of the catalogued type Leaf
WideStruct(k, n) ==
    Struct("Wide" \o ToString(k),
           [j \in 1..n |-> Field("field" \o ToString(j), <<"Leaf">>)])

\* A catalogue with n tagged fields: structs of WideFields fields each and
\* one struct with the remaining fields.
TagCatalogue(n) ==
    <<Struct("Leaf", <<Span>>)>>
        \o [k \in 1..(n \div WideFields) |-> WideStruct(k, WideFields)]
        \o (IF n % WideFields = 0 THEN <<>>
            ELSE <<WideStruct(n \div WideFields + 1, n % WideFields)>>)

\* The types the generated code imports from oxc_span and
\* oxc_syntax::operator, and the Rust primitives: the terminal types.
TerminalTypes ==
    {"Atom", "SourceType", "Span", "AssignmentOperator", "BinaryOperator",
     "LogicalOperator", "UnaryOperator", "UpdateOperator", "bool"}

(***************************************************************************)
(* Syntax trees.  Every value is a record                                  *)
(*   k  "struct" | "enum" | "opt" | "vec" | "box" | "term"                 *)
(*   t  the type name of a struct, enum or terminal                        *)
(*   v  the variant of an enum value                                       *)
(*   m  1 once a visitor has modified the node                             *)
(*   c  the children: the fields of a struct in declaration order, the     *)
(*      payload of an enum, Some or Box, the elements of a Vec             *)
(* A node is addressed by the path of child indices from the root.         *)
(***************************************************************************)
Value(k, t, v, c) == [k |-> k, t |-> t, v |-> v, m |-> 0, c |-> c]

\* The variants of an enum with those it inherits (inherit_variants!)
RECURSIVE allVariants(_, _, _)
allVariants(ts, name, fuel) ==
    IF fuel = 0 \/ ~HasType(ts, name) \/ Lookup(ts, name).kind # "enum" THEN {}
    ELSE LET type == Lookup(ts, name) IN
         Range(type.variants)
            \cup UNION {allVariants(ts, type.inherits[n], fuel - 1) :
                            n \in 1..Len(type.inherits)}

\* The longest sequence in the trees of a catalogue
SeqLen(ts) == IF HasType(ts, "BinaryExpression") THEN MaxLen ELSE MaxItems

RECURSIVE Values(_, _, _)
RECURSIVE FieldValues(_, _, _, _)
\* The values of a type with at most d levels of struct/enum nodes below
Values(ts, type, d) ==
    IF Len(type) > 1 THEN
        LET inner == Values(ts, Tail(type), d) IN
        IF type[1] = "Option"
        THEN {Value("opt", "", "", <<>>)} \cup {Value("opt", "", "", <<x>>) : x \in inner}
        ELSE IF type[1] = "Vec"
        THEN {Value("vec", "", "", s) : s \in UNION {[1..n -> inner] : n \in 0..SeqLen(ts)}}
        ELSE {Value("box", "", "", <<x>>) : x \in inner}
    ELSE IF ~HasType(ts, type[1]) THEN {Value("term", type[1], "", <<>>)}
    ELSE IF d < 0 THEN {}
    ELSE LET def == Lookup(ts, type[1]) IN
         IF def.kind = "struct"
         THEN {Value("struct", def.name, "", fs) : fs \in FieldValues(ts, def.fields, 1, d - 1)}
         ELSE UNION {{Value("enum", def.name, variant.name, <<x>>) :
                        x \in Values(ts, variant.type, d - 1)} :
                     variant \in allVariants(ts, def.name, Len(ts))}

\* The tuples of values of the fields j.. of a struct
FieldValues(ts, fields, j, d) ==
    IF j > Len(fields) THEN {<<>>}
    ELSE {<<x>> \o rest : x \in Values(ts, fields[j].type, d),
                          rest \in FieldValues(ts, fields, j + 1, d)}

RECURSIVE At(_, _)
\* The value at a path
At(t, path) == IF path = <<>> THEN t ELSE At(t.c[Head(path)], Tail(path))

RECURSIVE Modified(_, _)
\* The tree with the node at a path modified
Modified(t, path) ==
    IF path = <<>> THEN [t EXCEPT !.m = 1]
    ELSE [t EXCEPT !.c[Head(path)] = Modified(@, Tail(path))]

(***************************************************************************)
(* TraverseCtx: the ancestor stack                                         *)
(***************************************************************************)
push_stack(stk, entry) == Append(stk, entry)
retag_stack(stk, disc) == [stk EXCEPT ![Len(stk)].tag = disc]
pop_stack(stk) == SubSeq(stk, 1, Len(stk) - 1)

(***************************************************************************)
(* State                                                                   *)
(***************************************************************************)
VARIABLES
    source,     \* the declaration the catalogue parser reads: kind, name, body lines
    types,      \* the catalogue, with the properties the generators add to it
    ancestor,   \* what generateAncestorsCode returned
    walk,       \* what the walk generator that ran returned
    status,     \* "source", "assertionFailed", "typeError",
                \* "catalogue", "ancestors", "generated", "walkOnly", "thrown", "looping",
                \* "walking", "done", "hookPanicked", "todoPanicked", "noArm"
    root,       \* the type the traversal starts at
    visitor,    \* the Traverse implementation: "noop", "mark" or "panic"
    tree,       \* the tree being walked
    original,   \* the tree as it was handed to the traversal
    stack,      \* the ancestor stack of the TraverseCtx
    frames,     \* the call stack of walk functions: fn, node, pc, loop index i
    trace       \* the hook calls and stack operations so far

vars == <<source, types, ancestor, walk, status, root, visitor, tree, original,
          stack, frames, trace>>

Visitors == {"noop", "mark", "panic"}

NoAncestor ==
    [types |-> <<>>, discriminantType |-> "", enumVariants |-> <<>>,
     isFunctions |-> <<>>, offsetConsts |-> <<>>, ancestorStructs |-> <<>>]
NoWalk == [ok |-> FALSE, fns |-> <<>>, loops |-> FALSE]
NoTree == Value("term", "", "", <<>>)
NoSource == [kind |-> "", name |-> "", lines |-> <<>>]

Init ==
    /\ source = NoSource
    /\ types \in Catalogues
    /\ ancestor = NoAncestor
    /\ walk = NoWalk
    /\ status = "catalogue"
    /\ root = ""
    /\ visitor = ""
    /\ tree = NoTree
    /\ original = NoTree
    /\ stack = <<>>
    /\ frames = <<>>
    /\ trace = <<>>

\* The generator of the ancestor types alone, on catalogues of every number
\* of tagged fields up to MaxTags
InitTags ==
    /\ source = NoSource
    /\ types \in {TagCatalogue(n) : n \in 0..MaxTags}
    /\ ancestor = NoAncestor
    /\ walk = NoWalk
    /\ status = "catalogue"
    /\ root = ""
    /\ visitor = ""
    /\ tree = NoTree
    /\ original = NoTree
    /\ stack = <<>>
    /\ frames = <<>>
    /\ trace = <<>>

(***************************************************************************)
(* Generation                                                              *)
(***************************************************************************)
GenerateAncestors ==
    /\ status = "catalogue"
    /\ ancestor' = generateAncestorsCode(types)
    /\ types' = ancestor'.types
    /\ status' = "ancestors"
    /\ UNCHANGED <<source, walk, root, visitor, tree, original, stack, frames, trace>>

\* The walk generator reads field.offsetVarName and
\* field.ancestorDiscriminant, which generateAncestorsCode writes into the
\* catalogue; nothing in it requires that generateAncestorsCode has run.  A
\* walk module generated alone has no ancestor module to be built with.
GenerateWalk ==
    /\ status \in {"catalogue", "ancestors"}
    /\ walk' = generateWalkFunctionsCode(types)
    /\ status' = IF walk'.ok THEN (IF status = "ancestors" THEN "generated" ELSE "walkOnly")
                 ELSE IF walk'.loops THEN "looping" ELSE "thrown"
    /\ UNCHANGED <<source, types, ancestor, root, visitor, tree, original, stack, frames, trace>>

GenerateWalkTodo ==
    /\ status \in {"catalogue", "ancestors"}
    /\ walk' = generateWalkFunctionsCodeTodo(types)
    /\ status' = IF walk'.ok THEN (IF status = "ancestors" THEN "generated" ELSE "walkOnly")
                 ELSE "looping"
    /\ UNCHANGED <<source, types, ancestor, root, visitor, tree, original, stack, frames, trace>>

(***************************************************************************)
(* Traversal: the execution of the generated walk functions                *)
(***************************************************************************)
Frame(fn, node) == [fn |-> fn, node |-> node, pc |-> 1, i |-> 1]

\* offset_of!(type, field): the slot of the field in the struct's layout
LayoutOffset(ts, typeName, rawName) ==
    LET fields == Lookup(ts, typeName).fields
    IN  CHOOSE j \in 1..Len(fields) : fields[j].rawName = rawName

\* The value of the constant ancestor::OFFSET_..
OffsetConst(anc, ts, off) ==
    LET c == anc.offsetConsts[CHOOSE k \in 1..Len(anc.offsetConsts) :
                                  anc.offsetConsts[k].name = off]
    IN  LayoutOffset(ts, c.type, c.field)

\* The discriminant of the Ancestor variant of a name
VariantDiscriminant(anc, name) ==
    anc.enumVariants[CHOOSE k \in 1..Len(anc.enumVariants) :
                         anc.enumVariants[k].name = name].discriminant

\* The Ancestor variant a stack entry with a tag is
VariantOfTag(anc, tag) ==
    anc.enumVariants[CHOOSE k \in 1..Len(anc.enumVariants) :
                         anc.enumVariants[k].discriminant = tag].name

\* entry.is_..(): matches!(self, Self::V1(_) | Self::V2(_) ..) for the entry
\* with a tag
matches(anc, fnName, tag) ==
    LET fn == anc.isFunctions[CHOOSE k \in 1..Len(anc.isFunctions) :
                                  anc.isFunctions[k].name = fnName]
    IN  VariantOfTag(anc, tag) \in Range(fn.variants)

\* (node as *mut u8).add(ancestor::OFFSET) with the dereferences of `via`
Place(node, off, via) ==
    node \o (IF off = <<>> THEN <<>> ELSE <<OffsetConst(ancestor, types, off)>>)
         \o [k \in 1..Len(via) |-> 1]

Event(ev, name, at, tag, depth) ==
    [ev |-> ev, name |-> name, at |-> at, tag |-> tag, depth |-> depth]

Top == frames[Len(frames)]
Code == walk.fns[Top.fn]
Running == status = "walking" /\ Len(frames) > 0
AtInstr == Running /\ Top.pc <= Len(Code)
Cur == Code[Top.pc]

\* The frames with the top frame moved past n instructions
Advanced(n) == [frames EXCEPT ![Len(frames)].pc = @ + n, ![Len(frames)].i = 1]

\* The default methods of the Traverse trait have empty bodies
defaultHook(t, path) == t

\* What the visitor's hook does to the tree
HookEffect(v, ev, t, path) ==
    IF v = "mark" /\ ev = "enter" THEN Modified(t, path) ELSE defaultHook(t, path)

\* traverse: walk_X(traverser, root, ctx) on a fresh context
Traverse ==
    /\ status = "generated"
    /\ \E r \in {types[i].name : i \in 1..Len(types)} :
        \E t \in Values(types, <<r>>, MaxDepth) :
          \E v \in Visitors :
            /\ root' = r
            /\ tree' = t
            /\ original' = t
            /\ visitor' = v
            /\ frames' = <<Frame(r, <<>>)>>
    /\ stack' = <<>>
    /\ trace' = <<>>
    /\ status' = "walking"
    /\ UNCHANGED <<source, types, ancestor, walk>>

\* Mutant of CallHook: the hook gets the context mutably and leaves an entry
\* of its own on the ancestor stack.
CallHookPushesEntry ==
    /\ AtInstr /\ Cur.op \in {"enter", "exit"}
    /\ tree' = HookEffect(visitor, Cur.op, tree, Top.node)
    /\ trace' = Append(trace, Event(Cur.op, Cur.fn, Top.node, -1, Len(stack)))
    /\ frames' = Advanced(1)
    /\ stack' = IF visitor = "mark" THEN push_stack(stack, [tag |-> 0, node |-> Top.node])
                ELSE stack
    /\ UNCHANGED <<source, types, ancestor, walk, status, root, visitor, original>>

\* traverser.enter_X(&mut *node, ctx) / traverser.exit_X(&mut *node, ctx);
\* the hook takes the node as `&mut` and the context as `&TraverseCtx`
CallHook ==
    /\ AtInstr /\ Cur.op \in {"enter", "exit"}
    /\ tree' = HookEffect(visitor, Cur.op, tree, Top.node)
    /\ trace' = Append(trace, Event(Cur.op, Cur.fn, Top.node, -1, Len(stack)))
    /\ frames' = Advanced(1)
    /\ UNCHANGED <<source, types, ancestor, walk, status, root, visitor, original, stack>>

\* A hook of the visitor panics: the call stack unwinds to the caller of the
\* traversal; no statement of a walk function runs any more.
HookPanics ==
    /\ AtInstr /\ Cur.op \in {"enter", "exit"}
    /\ visitor = "panic"
    /\ trace' = Append(trace, Event(Cur.op, Cur.fn, Top.node, -1, Len(stack)))
    /\ frames' = <<>>
    /\ status' = "hookPanicked"
    /\ UNCHANGED <<source, types, ancestor, walk, root, visitor, tree, original, stack>>

\* ctx.push_stack(Ancestor::TF(ancestor::TWithoutF(node)))
PushStack ==
    /\ AtInstr /\ Cur.op = "push"
    /\ LET tag == VariantDiscriminant(ancestor, Cur.variant) IN
        /\ stack' = push_stack(stack, [tag |-> tag, node |-> Top.node])
        /\ trace' = Append(trace, Event("push", "", Top.node, tag, Len(stack) + 1))
    /\ frames' = Advanced(1)
    /\ UNCHANGED <<source, types, ancestor, walk, status, root, visitor, tree, original>>

\* ctx.retag_stack(discriminant)
RetagStack ==
    /\ AtInstr /\ Cur.op = "retag"
    /\ stack' = retag_stack(stack, Cur.disc)
    /\ trace' = Append(trace, Event("retag", "", Top.node, Cur.disc, Len(stack)))
    /\ frames' = Advanced(1)
    /\ UNCHANGED <<source, types, ancestor, walk, status, root, visitor, tree, original>>

\* ctx.pop_stack()
PopStack ==
    /\ AtInstr /\ Cur.op = "pop"
    /\ stack' = pop_stack(stack)
    /\ trace' = Append(trace, Event("pop", "", Top.node, -1, Len(stack) - 1))
    /\ frames' = Advanced(1)
    /\ UNCHANGED <<source, types, ancestor, walk, status, root, visitor, tree, original>>

\* if let Some(field) = &mut *(fieldCode) { .. }
IfSomeField ==
    /\ AtInstr /\ Cur.op = "ifSome"
    /\ frames' = IF Len(At(tree, Place(Top.node, Cur.off, <<>>)).c) > 0
                 THEN Advanced(1) ELSE Advanced(1 + Cur.skip)
    /\ UNCHANGED <<source, types, ancestor, walk, status, root, visitor, tree, original,
                   stack, trace>>

\* walk_X(traverser, place, ctx) and walk_statements(traverser, place, ctx)
WalkField ==
    /\ AtInstr /\ Cur.op \in {"walk", "walkStatements"}
    /\ frames' = Append(Advanced(1),
                        Frame(IF Cur.op = "walk" THEN Cur.fn ELSE "statements",
                              Place(Top.node, Cur.off, Cur.via)))
    /\ UNCHANGED <<source, types, ancestor, walk, status, root, visitor, tree, original,
                   stack, trace>>

\* Mutant of WalkEachItem: the items are taken from the last to the first.
WalkEachItemBackwards ==
    /\ AtInstr /\ Cur.op = "walkEach"
    /\ LET vec == Place(Top.node, Cur.off, Cur.via)
           items == At(tree, vec).c
           k == Len(items) + 1 - Top.i
           next == [frames EXCEPT ![Len(frames)].i = @ + 1]
       IN  frames' =
             IF Top.i > Len(items) THEN Advanced(1)
             ELSE IF ~Cur.flatten THEN Append(next, Frame(Cur.fn, vec \o <<k>>))
             ELSE IF Len(items[k].c) = 0 THEN next
             ELSE Append(next, Frame(Cur.fn, vec \o <<k, 1>>))
    /\ UNCHANGED <<source, types, ancestor, walk, status, root, visitor, tree, original,
                   stack, trace>>

\* for item in place.iter_mut()[.flatten()] { walk_X(traverser, item, ctx) }:
\* one iteration, or the end of the loop
WalkEachItem ==
    /\ AtInstr /\ Cur.op = "walkEach"
    /\ LET vec == Place(Top.node, Cur.off, Cur.via)
           items == At(tree, vec).c
           next == [frames EXCEPT ![Len(frames)].i = @ + 1]
       IN  frames' =
             IF Top.i > Len(items) THEN Advanced(1)
             ELSE IF ~Cur.flatten THEN Append(next, Frame(Cur.fn, vec \o <<Top.i>>))
             ELSE IF Len(items[Top.i].c) = 0 THEN next
             ELSE Append(next, Frame(Cur.fn, vec \o <<Top.i, 1>>))
    /\ UNCHANGED <<source, types, ancestor, walk, status, root, visitor, tree, original,
                   stack, trace>>

\* The first arm of a match that matches a variant (0: none)
MatchingArm(arms, variant) ==
    IF \E k \in 1..Len(arms) : arms[k].wild \/ variant \in Range(arms[k].patterns)
    THEN CHOOSE k \in 1..Len(arms) :
            /\ arms[k].wild \/ variant \in Range(arms[k].patterns)
            /\ \A h \in 1..(k - 1) : ~(arms[h].wild \/ variant \in Range(arms[h].patterns))
    ELSE 0

\* match &mut *node { .. }
MatchVariant ==
    /\ AtInstr /\ Cur.op = "match"
    /\ LET k == MatchingArm(Cur.arms, At(tree, Top.node).v) IN
         IF k = 0 THEN /\ status' = "noArm"
                       /\ frames' = <<>>
         ELSE IF Cur.arms[k].todo
         THEN /\ status' = "todoPanicked"
              /\ frames' = <<>>
         ELSE /\ status' = status
              /\ frames' = Append(Advanced(1),
                                  Frame(Cur.arms[k].fn, Place(Top.node, <<>>, Cur.arms[k].via)))
    /\ UNCHANGED <<source, types, ancestor, walk, root, visitor, tree, original,
                   stack, trace>>

\* todo!(..), alone or as the body of a loop over the items of a Vec
TodoPanics ==
    /\ AtInstr /\ Cur.op \in {"todo", "eachTodo"}
    /\ IF Cur.op = "eachTodo" /\ Len(At(tree, Place(Top.node, Cur.off, Cur.via)).c) = 0
       THEN /\ frames' = Advanced(1)
            /\ status' = status
       ELSE /\ frames' = <<>>
            /\ status' = "todoPanicked"
    /\ UNCHANGED <<source, types, ancestor, walk, root, visitor, tree, original,
                   stack, trace>>

\* The end of a walk function
Return ==
    /\ Running /\ Top.pc > Len(Code)
    /\ frames' = SubSeq(frames, 1, Len(frames) - 1)
    /\ status' = IF Len(frames) = 1 THEN "done" ELSE status
    /\ UNCHANGED <<source, types, ancestor, walk, root, visitor, tree, original,
                   stack, trace>>

Next ==
    \/ GenerateAncestors
    \/ GenerateWalk
    \/ GenerateWalkTodo
    \/ Traverse
    \/ CallHook
    \/ HookPanics
    \/ PushStack
    \/ RetagStack
    \/ PopStack
    \/ IfSomeField
    \/ WalkField
    \/ WalkEachItem
    \/ MatchVariant
    \/ TodoPanics
    \/ Return

Spec == Init /\ [][Next]_vars

NextTags == GenerateAncestors

SpecTags == InitTags /\ [][NextTags]_vars

(***************************************************************************)
(* Vocabulary of the properties                                            *)
(***************************************************************************)
CatalogueNames == {types[i].name : i \in 1..Len(types)}

\* A field is descendable when its unwrapped element type is catalogued.
DescendableSlots(typeName) ==
    LET fields == Lookup(types, typeName).fields
    IN  {j \in 1..Len(fields) : fields[j].type[Len(fields[j].type)] \in CatalogueNames}

Least(S) == CHOOSE x \in S : \A y \in S : x <= y

\* The tag of the Ancestor variant (struct type, field in slot j)
TagOfField(typeName, j) ==
    VariantDiscriminant(ancestor, <<typeName, Lookup(types, typeName).fields[j].name>>)

EventsAt(ev, p) == {i \in 1..Len(trace) : trace[i].ev = ev /\ trace[i].at = p}

\* Event i is a hook call of the walk routine of the struct node it is at.
IsStructHook(i, ev) ==
    /\ trace[i].ev = ev
    /\ At(tree, trace[i].at).k = "struct"
    /\ trace[i].name = At(tree, trace[i].at).t

IsPrefix(p, q) == Len(p) <= Len(q) /\ SubSeq(q, 1, Len(p)) = p

Completed == status = "done"

(***************************************************************************)
(* C1: a complete walk with a visitor whose hooks are all no-ops starts    *)
(* with an empty ancestor stack, ends with an empty ancestor stack and     *)
(* leaves every node of the tree as it was.                                *)
(***************************************************************************)
C1_NoopWalkIsIdempotent ==
    /\ (status = "walking" /\ trace = <<>>) => stack = <<>>
    /\ (Completed /\ visitor = "noop") => (stack = <<>> /\ tree = original)

\* A finished no-op walk of a BinaryExpression during which the stack was pushed.
C1_Witness ==
    /\ Completed /\ visitor = "noop" /\ root = "BinaryExpression"
    /\ \E i \in 1..Len(trace) : trace[i].ev = "push"
    /\ stack = <<>> /\ tree = original

(***************************************************************************)
(* C2: one execution of a struct's walk routine performs exactly one       *)
(* push_stack if the struct has a descendable field and none otherwise,    *)
(* and as many pop_stack as push_stack; a struct without descendable       *)
(* fields performs no push, retag or pop.                                  *)
(***************************************************************************)
\* The events to check: the newest one while the walk runs (every event is
\* the newest in the state it is recorded in), all of them once it is over.
EventsToCheck ==
    IF status = "walking" THEN {Len(trace)} \ {0} ELSE 1..Len(trace)

C2_OnePushOnePopPerStruct ==
    \A i \in EventsToCheck :
        IsStructHook(i, "exit") =>
            LET p == trace[i].at
                n == IF DescendableSlots(At(tree, p).t) = {} THEN 0 ELSE 1
            IN  /\ Cardinality(EventsAt("push", p)) = n
                /\ Cardinality(EventsAt("pop", p)) = n
                /\ n = 0 => EventsAt("retag", p) = {}

\* A finished walk that ran the routine of a struct with descendable fields
\* and the routine of a struct without any.
C2_Witness ==
    /\ Completed
    /\ \E i, j \in 1..Len(trace) :
        /\ IsStructHook(i, "exit") /\ IsStructHook(j, "exit")
        /\ DescendableSlots(At(tree, trace[i].at).t) = {}
        /\ DescendableSlots(At(tree, trace[j].at).t) # {}
        /\ EventsAt("push", trace[j].at) # {}

(***************************************************************************)
(* C3: walking a struct with two unwrapped descendable fields left, right  *)
(* produces exactly: enter(struct), push(tag of left), the full walk of    *)
(* the left subtree, retag(tag of right), the full walk of the right       *)
(* subtree, pop, exit(struct).                                             *)
(***************************************************************************)
Greatest(S) == CHOOSE x \in S : \A y \in S : x >= y

\* The root is a struct with exactly two descendable fields, both unwrapped.
RootHasTwoPlainFields ==
    /\ root \in CatalogueNames
    /\ Lookup(types, root).kind = "struct"
    /\ Cardinality(DescendableSlots(root)) = 2
    /\ \A j \in DescendableSlots(root) : Len(Lookup(types, root).fields[j].type) = 1

\* Events a..b are a walk of the subtree at p: it opens with the enter hook
\* of the subtree's type, closes with its exit hook, stays inside the
\* subtree, and every enter is matched by an exit.
IsSubtreeWalk(a, b, p, typeName) ==
    /\ a < b
    /\ trace[a].ev = "enter" /\ trace[a].name = typeName /\ trace[a].at = p
    /\ trace[b].ev = "exit" /\ trace[b].name = typeName /\ trace[b].at = p
    /\ \A i \in a..b : IsPrefix(p, trace[i].at)
    /\ Cardinality({i \in a..b : trace[i].ev = "enter"})
         = Cardinality({i \in a..b : trace[i].ev = "exit"})

C3_TwoFieldEventOrder ==
    (Completed /\ RootHasTwoPlainFields) =>
        LET l == Least(DescendableSlots(root))
            r == Greatest(DescendableSlots(root))
            fields == Lookup(types, root).fields
            n == Len(trace)
        IN  /\ n >= 9
            /\ trace[1] = Event("enter", root, <<>>, -1, 0)
            /\ trace[2] = Event("push", "", <<>>, TagOfField(root, l), 1)
            /\ \E k \in 5..(n - 4) :
                /\ trace[k] = Event("retag", "", <<>>, TagOfField(root, r), 1)
                /\ IsSubtreeWalk(3, k - 1, <<l>>, fields[l].type[1])
                /\ IsSubtreeWalk(k + 1, n - 2, <<r>>, fields[r].type[1])
            /\ trace[n - 1] = Event("pop", "", <<>>, -1, 0)
            /\ trace[n] = Event("exit", root, <<>>, -1, 0)

\* A finished walk of a BinaryExpression whose left operand is itself a
\* BinaryExpression.
C3_Witness ==
    /\ Completed /\ RootHasTwoPlainFields /\ root = "BinaryExpression"
    /\ At(tree, <<2>>).v = "BinaryExpression"
    /\ Len(trace) > 9

(***************************************************************************)
(* C4: the entry a struct's walk routine pushes is the tag of the struct's *)
(* first descendable field; for each later descendable field that is       *)
(* processed the top entry is retagged in place to that field's tag        *)
(* (stack depth unchanged) before the field is processed.                  *)
(***************************************************************************)
PrevDepth(i) == IF i = 1 THEN 0 ELSE trace[i - 1].depth

\* The push or retag events the walk routine of the struct at p made before event i
StackEventsBefore(p, i) ==
    {j \in 1..(i - 1) : trace[j].at = p /\ trace[j].ev \in {"push", "retag"}}

C4_PushFirstThenRetagInPlace ==
    /\ \A i \in EventsToCheck :
        LET p == trace[i].at
            T == At(tree, p).t
        IN  /\ trace[i].ev = "push" =>
                /\ At(tree, p).k = "struct"
                /\ trace[i].tag = TagOfField(T, Least(DescendableSlots(T)))
                /\ trace[i].depth = PrevDepth(i) + 1
            /\ trace[i].ev = "retag" =>
                /\ At(tree, p).k = "struct"
                /\ \E j \in DescendableSlots(T) \ {Least(DescendableSlots(T))} :
                        trace[i].tag = TagOfField(T, j)
                /\ trace[i].depth = PrevDepth(i)
                /\ EventsAt("push", p) # {}
            /\ trace[i].ev = "enter" =>
                \A n \in 0..(Len(p) - 1) :
                    LET s == SubSeq(p, 1, n)
                        slot == p[n + 1]
                        S == StackEventsBefore(s, i)
                    IN  At(tree, s).k = "struct" =>
                            /\ S # {}
                            /\ trace[Greatest(S)].tag = TagOfField(At(tree, s).t, slot)
                            /\ trace[Greatest(S)].ev =
                                 IF slot = Least(DescendableSlots(At(tree, s).t))
                                 THEN "push" ELSE "retag"
    /\ \A k \in 1..Len(stack) :
        /\ At(tree, stack[k].node).k = "struct"
        /\ \E j \in DescendableSlots(At(tree, stack[k].node).t) :
                stack[k].tag = TagOfField(At(tree, stack[k].node).t, j)

\* The right operand of a BinaryExpression has just been entered after the
\* entry pushed for the left operand was retagged.
C4_Witness ==
    /\ status = "walking" /\ root = "BinaryExpression" /\ Len(trace) > 2
    /\ trace[Len(trace)].ev = "enter" /\ trace[Len(trace)].at = <<4>>
    /\ trace[Len(trace) - 1].ev = "retag"
    /\ Len(stack) = 1 /\ stack[1].tag = TagOfField("BinaryExpression", 4)

(***************************************************************************)
(* C5: an enum value whose variant is declared only in an enum B that the  *)
(* value's enum E reaches through one or more inheritance steps is         *)
(* dispatched, without a dispatch error, to the walk routine of B, and the *)
(* payload of the variant is then walked.                                  *)
(***************************************************************************)
OwnVariantNames(enumName) ==
    {Lookup(types, enumName).variants[k].name :
        k \in 1..Len(Lookup(types, enumName).variants)}

\* The catalogued enums that declare a variant themselves
DeclaringEnums(variantName) ==
    {n \in CatalogueNames :
        Lookup(types, n).kind = "enum" /\ variantName \in OwnVariantNames(n)}

\* The payload place of the variant of the enum node at p
PayloadPlace(p, enumName, variantName) ==
    LET def == Lookup(types, enumName)
        k == CHOOSE k \in 1..Len(def.variants) : def.variants[k].name = variantName
    IN  p \o [h \in 1..Len(def.variants[k].type) |-> 1]

PayloadType(enumName, variantName) ==
    LET def == Lookup(types, enumName)
        k == CHOOSE k \in 1..Len(def.variants) : def.variants[k].name = variantName
    IN  unwrapTypeName(def.variants[k].type)

C5_InheritedVariantReachesBase ==
    /\ status # "noArm"
    /\ Completed =>
        \A i \in 1..Len(trace) :
            LET p == trace[i].at
                E == trace[i].name
                v == At(tree, p).v
            IN  (/\ trace[i].ev = "enter"
                 /\ At(tree, p).k = "enum"
                 /\ v \notin OwnVariantNames(E)) =>
                    \E B \in DeclaringEnums(v) : \E j \in (i + 1)..Len(trace) :
                        /\ trace[j].ev = "enter" /\ trace[j].name = B /\ trace[j].at = p
                        /\ \E h \in (j + 1)..Len(trace) :
                            /\ trace[h].ev = "enter"
                            /\ trace[h].name = PayloadType(B, v)
                            /\ trace[h].at = PayloadPlace(p, B, v)

\* A finished walk of an Argument holding a StaticMemberExpression, a
\* variant that MemberExpression declares: two inheritance steps away.
C5_Witness ==
    /\ Completed /\ root = "Argument" /\ tree.v = "StaticMemberExpression"
    /\ \E j \in 1..Len(trace) :
        trace[j] = Event("enter", "MemberExpression", <<>>, -1, 0)
    /\ \E h \in 1..Len(trace) :
        trace[h] = Event("enter", "StaticMemberExpression", <<1, 1>>, -1, 0)

(***************************************************************************)
(* C6: for a struct field of type Option<Vec<Statement>> whose value is    *)
(* None, walking the struct produces no descent, no enter_statements or    *)
(* exit_statements call and no push_stack or retag_stack with the field's  *)
(* tag, wherever the field stands among the descendable fields.            *)
(***************************************************************************)
\* The slots of the struct node at p that hold an absent Option<Vec<Statement>>
AbsentStatementSlots(p) ==
    LET fields == Lookup(types, At(tree, p).t).fields
    IN  {j \in 1..Len(fields) :
            /\ fields[j].type = <<"Option", "Vec", "Statement">>
            /\ At(tree, p \o <<j>>).c = <<>>}

NoDescentInto(p, j) == \A i \in 1..Len(trace) : ~IsPrefix(p \o <<j>>, trace[i].at)

NoStackEventFor(ev, p, j) ==
    \A i \in EventsAt(ev, p) : trace[i].tag # TagOfField(At(tree, p).t, j)

\* The claim as stated: no push either, also for the first descendable field.
C6_AbsentStatementsNoStackEvent ==
    \A i \in EventsToCheck :
        IsStructHook(i, "exit") =>
            \A j \in AbsentStatementSlots(trace[i].at) :
                /\ NoDescentInto(trace[i].at, j)
                /\ NoStackEventFor("retag", trace[i].at, j)
                /\ NoStackEventFor("push", trace[i].at, j)

\* C6 as amended: no descent, no enter_statements/exit_statements and no
\* retag_stack for the absent field; no push_stack for it either unless it is
\* the struct's first descendable field, whose tag the struct's one
\* push_stack carries whether the field is present or not.
C6_AbsentStatementsNoDescentNoRetag ==
    \A i \in EventsToCheck :
        IsStructHook(i, "exit") =>
            LET p == trace[i].at
                first == Least(DescendableSlots(At(tree, p).t))
            IN  \A j \in AbsentStatementSlots(p) :
                    /\ NoDescentInto(p, j)
                    /\ NoStackEventFor("retag", p, j)
                    /\ j # first => NoStackEventFor("push", p, j)
                    /\ j = first =>
                        /\ Cardinality(EventsAt("push", p)) = 1
                        /\ \A e \in EventsAt("push", p) :
                                trace[e].tag = TagOfField(At(tree, p).t, j)

\* A finished walk of a TryStatement whose block (first descendable field)
\* and finalizer (last) are both None while its handler is present.
C6_Witness ==
    /\ Completed /\ root = "TryStatement"
    /\ AbsentStatementSlots(<<>>) = {2, 4}
    /\ At(tree, <<3>>).c # <<>>
    /\ \E i \in 1..Len(trace) : trace[i].ev = "retag"

(***************************************************************************)
(* C7: if a visitor hook signals an error while the right field of a       *)
(* two-field struct is being visited, the traversal stops at once, no      *)
(* further hook is called, and the ancestor stack is empty when the error  *)
(* reaches the caller.                                                     *)
(***************************************************************************)
C7_HookErrorUnwindsStack ==
    (/\ status = "hookPanicked"
     /\ RootHasTwoPlainFields
     /\ IsPrefix(<<Greatest(DescendableSlots(root))>>, trace[Len(trace)].at)) =>
        /\ frames = <<>>
        /\ stack = <<>>

(***************************************************************************)
(* C8: the accessor object of tag (T, G) has an accessor for exactly the   *)
(* fields F of T other than G, and the accessor for F resolves to the      *)
(* address of the struct plus offset(T, F) of the field-offset table.      *)
(***************************************************************************)
StructNames == {n \in CatalogueNames : Lookup(types, n).kind = "struct"}

AccessorObjects(T, G) ==
    {k \in 1..Len(ancestor.ancestorStructs) : ancestor.ancestorStructs[k].name = <<T, G>>}

C8_AccessorsForOtherFieldsAtOffset ==
    status = "ancestors" =>
        \A T \in StructNames :
            LET fields == Lookup(types, T).fields IN
            \A g \in DescendableSlots(T) :
                /\ Cardinality(AccessorObjects(T, fields[g].name)) = 1
                /\ \A k \in AccessorObjects(T, fields[g].name) :
                    LET methods == ancestor.ancestorStructs[k].methods IN
                    /\ Len(methods) = Len(fields) - 1
                    /\ {methods[m].name : m \in 1..Len(methods)}
                         = {fields[f].rawName : f \in (1..Len(fields)) \ {g}}
                    /\ \A m \in 1..Len(methods) :
                         Place(<<>>, methods[m].offsetVarName, <<>>)
                           = <<LayoutOffset(types, T, methods[m].name)>>

\* The ancestor types of the AST catalogue have been generated; the object
\* of tag (BinaryExpression, left) has its three accessors.
C8_Witness ==
    /\ status = "ancestors" /\ "BinaryExpression" \in CatalogueNames
    /\ \E k \in AccessorObjects("BinaryExpression", "left") :
        Len(ancestor.ancestorStructs[k].methods) = 3

(***************************************************************************)
(* C9: for every struct field or enum variant whose unwrapped type is      *)
(* catalogued and whose wrapper chain is not a supported combination,      *)
(* walk generation fails at generation time; no walk routine is emitted    *)
(* that skips the field or fails only when it runs.                        *)
(***************************************************************************)
\* The wrapper chains of struct fields that the walk dispatch supports:
\* none, Option, Vec, Vec<Option>, Option<Vec>, and Box alone or under these.
SupportedFieldChains ==
    {<<>>, <<"Option">>, <<"Vec">>, <<"Vec", "Option">>, <<"Option", "Vec">>,
     <<"Box">>, <<"Option", "Box">>, <<"Vec", "Box">>, <<"Vec", "Option", "Box">>}

\* The wrapper chains of enum variant payloads that are supported
SupportedVariantChains == {<<>>, <<"Box">>}

HasUnsupportedChain ==
    \E i \in 1..Len(types) :
        \/ \E j \in 1..Len(types[i].fields) :
            /\ unwrapTypeName(types[i].fields[j].type) \in CatalogueNames
            /\ typeAndWrappers(types[i].fields[j].type).wrappers \notin SupportedFieldChains
        \/ \E j \in 1..Len(types[i].variants) :
            /\ unwrapTypeName(types[i].variants[j].type) \in CatalogueNames
            /\ typeAndWrappers(types[i].variants[j].type).wrappers
                    \notin SupportedVariantChains

C9_UnsupportedWrappersFailGeneration ==
    (status \notin {"catalogue", "ancestors"} /\ HasUnsupportedChain) => status = "thrown"

(***************************************************************************)
(* C10: when a struct field refers to a type that is neither catalogued    *)
(* nor a terminal type, generation aborts with an error; the field is not  *)
(* silently left out of the ancestor tags and the walk routine.            *)
(***************************************************************************)
HasUndeclaredFieldType ==
    \E i \in 1..Len(types) : \E j \in 1..Len(types[i].fields) :
        unwrapTypeName(types[i].fields[j].type) \notin (CatalogueNames \cup TerminalTypes)

C10_UndeclaredFieldTypeFailsGeneration ==
    (status \notin {"catalogue", "ancestors"} /\ HasUndeclaredFieldType) => status = "thrown"

(***************************************************************************)
(* C11: if an enum reachable through the inheritance closure of an enum E  *)
(* names a base that is not in the catalogue or is not an enum, walk       *)
(* generation fails at generation time and no walk routine for E is        *)
(* emitted.                                                                *)
(***************************************************************************)
EnumNames == {n \in CatalogueNames : Lookup(types, n).kind = "enum"}

\* The names the enums of a set inherit from
BasesOf(S) ==
    UNION {Range(Lookup(types, n).inherits) : n \in S \cap EnumNames}

RECURSIVE BasesClosure(_, _)
\* The names reached from the set S in at most `fuel` further inheritance steps
BasesClosure(S, fuel) ==
    IF fuel = 0 THEN S ELSE BasesClosure(S \cup BasesOf(S), fuel - 1)

\* The names the enum E reaches in one or more inheritance steps
InheritedBy(E) == BasesClosure(BasesOf({E}), Len(types))

\* The bases in the closure of E that are absent or not enums
MissingBases(E) == InheritedBy(E) \ EnumNames

HasInheritanceCycle == \E E \in EnumNames : E \in InheritedBy(E)

C11_MissingBaseFailsGeneration ==
    \A E \in EnumNames :
        (/\ status \notin {"catalogue", "ancestors"}
         /\ MissingBases(E) # {}
         /\ ~HasInheritanceCycle) =>
            /\ status = "thrown"
            /\ E \notin DOMAIN walk.fns

(***************************************************************************)
(* C12: for a catalogue whose enum inheritance relation has a cycle (E     *)
(* inherits B and B inherits E, or E inherits E) the resolution of the     *)
(* inherited variants comes to an end and the cycle is reported as a fatal *)
(* error of generation.                                                    *)
(***************************************************************************)
C12_InheritanceCycleDetected ==
    (status \notin {"catalogue", "ancestors"} /\ HasInheritanceCycle) =>
        status = "thrown"

(***************************************************************************)
(* C13: for every enum X that is the type of some tagged field, is_via_X   *)
(* is true for an ancestor entry exactly when the field type of the        *)
(* entry's tag is X or an enum that reaches X through one or more          *)
(* inheritance steps.                                                      *)
(***************************************************************************)
\* The tagged (struct, slot) pairs of the catalogue
TaggedFields == UNION {{<<T, j>> : j \in DescendableSlots(T)} : T \in StructNames}

FieldTypeOf(tf) == unwrapTypeName(Lookup(types, tf[1]).fields[tf[2]].type)

\* The enums some tagged field has as its type
ReferencedEnums == {FieldTypeOf(tf) : tf \in TaggedFields} \cap EnumNames

IsFunctionsNamed(fnName) ==
    {k \in 1..Len(ancestor.isFunctions) : ancestor.isFunctions[k].name = fnName}

C13_IsViaFollowsInheritance ==
    status = "ancestors" =>
        \A X \in ReferencedEnums :
            /\ Cardinality(IsFunctionsNamed(<<"is_via", X>>)) = 1
            /\ \A tf \in TaggedFields :
                    matches(ancestor, <<"is_via", X>>, TagOfField(tf[1], tf[2]))
                        <=> (FieldTypeOf(tf) = X \/ X \in InheritedBy(FieldTypeOf(tf)))
            /\ ~matches(ancestor, <<"is_via", X>>, 0)

(***************************************************************************)
(* C14: for every struct T with a tagged field, is_T is true for an        *)
(* ancestor entry exactly when the entry's tag is one of the tags (T,      *)
(* field) of T; it is false for the None tag and for the tags of every     *)
(* other struct.                                                           *)
(***************************************************************************)
C14_IsStructMatchesOwnTags ==
    status = "ancestors" =>
        \A T \in {tf[1] : tf \in TaggedFields} :
            /\ Cardinality(IsFunctionsNamed(<<"is", T>>)) = 1
            /\ \A k \in 1..Len(ancestor.enumVariants) :
                    matches(ancestor, <<"is", T>>, ancestor.enumVariants[k].discriminant)
                        <=> \E j \in DescendableSlots(T) :
                                ancestor.enumVariants[k].discriminant = TagOfField(T, j)
            /\ ~matches(ancestor, <<"is", T>>, 0)
            /\ \A tf \in TaggedFields :
                    tf[1] # T => ~matches(ancestor, <<"is", T>>, TagOfField(tf[1], tf[2]))

\* The ancestor types of the AST catalogue have been generated:
\* is_binary_expression matches the tags of left and right and not the tag
\* of the argument of a SpreadElement.
C14_Witness ==
    /\ status = "ancestors" /\ "BinaryExpression" \in CatalogueNames
    /\ matches(ancestor, <<"is", "BinaryExpression">>, TagOfField("BinaryExpression", 2))
    /\ matches(ancestor, <<"is", "BinaryExpression">>, TagOfField("BinaryExpression", 4))
    /\ ~matches(ancestor, <<"is", "BinaryExpression">>, TagOfField("SpreadElement", 2))

(***************************************************************************)
(* C15: the discriminants of the Ancestor tags are sequential without gaps *)
(* or duplicates: None is 0 and the k-th tagged (struct, field) pair in    *)
(* catalogue order has k; the discriminant type is 8 bits wide exactly     *)
(* when the number of tags, None included, is at most 256 and wider        *)
(* otherwise, and every discriminant fits in it.                           *)
(***************************************************************************)
\* The tagged (struct, field) pairs in catalogue order
TaggedInOrder ==
    Flatten([i \in 1..Len(types) |->
        IF types[i].kind # "struct" THEN <<>>
        ELSE LET tagged == SelectSeq(types[i].fields,
                               LAMBDA field : unwrapTypeName(field.type) \in CatalogueNames)
             IN  [j \in 1..Len(tagged) |-> <<types[i].name, tagged[j].name>>]])

\* Width in bits of the discriminant type
Bits(type) == IF type = "u8" THEN 8 ELSE IF type = "u16" THEN 16 ELSE 0

BoxedChains ==
    {<<"Box">>, <<"Option", "Box">>, <<"Vec", "Box">>, <<"Vec", "Option", "Box">>}

\* The tagged fields whose wrapper chain has a Box
BoxedFields ==
    {tf \in TaggedFields :
        typeAndWrappers(Lookup(types, tf[1]).fields[tf[2]].type).wrappers \in BoxedChains}

\* Nothing but its boxed fields could make generation for the catalogue fail.
NoOtherModelError ==
    /\ ~HasUnsupportedChain
    /\ ~HasInheritanceCycle
    /\ \A E \in EnumNames : MissingBases(E) = {}
    /\ \A i \in 1..Len(types) : \A j \in 1..Len(types[i].variants) :
            unwrapTypeName(types[i].variants[j].type) \in CatalogueNames

RECURSIVE NodesBehind(_, _)
\* The places of the nodes behind the wrappers of a chain, from the place
\* of the wrapped value
NodesBehind(path, chain) ==
    IF chain = <<>> THEN {path}
    ELSE IF Head(chain) = "Vec"
    THEN UNION {NodesBehind(path \o <<k>>, Tail(chain)) : k \in 1..Len(At(tree, path).c)}
    ELSE IF At(tree, path).c = <<>> THEN {}
    ELSE NodesBehind(path \o <<1>>, Tail(chain))

C16_BoxedFieldsAcceptedAndWalked ==
    (BoxedFields # {} /\ NoOtherModelError) =>
        /\ status \notin {"thrown", "looping", "todoPanicked"}
        /\ \A i \in EventsToCheck :
            IsStructHook(i, "exit") =>
                \A tf \in BoxedFields :
                    tf[1] = trace[i].name =>
                        LET field == Lookup(types, tf[1]).fields[tf[2]]
                            tw == typeAndWrappers(field.type)
                        IN  \A q \in NodesBehind(trace[i].at \o <<tf[2]>>, tw.wrappers) :
                                \E e \in EventsAt("enter", q) : trace[e].name = tw.name

(***************************************************************************)
(* C17: in a struct walk the descendable fields are visited in declaration *)
(* order and the elements of a sequence in sequence order; every           *)
(* descendable field and element is visited once, none is left out or      *)
(* visited again, and no hook of a sibling is called before the walk of    *)
(* the sibling before it has returned.                                     *)
(***************************************************************************)
IsHook(i) == trace[i].ev \in {"enter", "exit"}

\* p comes before q in the order of the tree: at the first index where the
\* two places differ, p takes the earlier slot or element.
Precedes(p, q) ==
    \E n \in 1..Len(p) :
        /\ n <= Len(q)
        /\ SubSeq(p, 1, n - 1) = SubSeq(q, 1, n - 1)
        /\ p[n] < q[n]

Comparable(p, q) == IsPrefix(p, q) \/ IsPrefix(q, p)

C17_DeclarationOrderOnceEach ==
    \A i \in EventsToCheck :
        IsHook(i) =>
            /\ \A h \in 1..(i - 1) :
                    IsHook(h) =>
                        /\ Comparable(trace[h].at, trace[i].at)
                                \/ Precedes(trace[h].at, trace[i].at)
                        /\ <<trace[h].ev, trace[h].name, trace[h].at>>
                                # <<trace[i].ev, trace[i].name, trace[i].at>>
            /\ IsStructHook(i, "exit") =>
                    \A j \in DescendableSlots(trace[i].name) :
                        LET tw == typeAndWrappers(Lookup(types, trace[i].name).fields[j].type)
                        IN  \A q \in NodesBehind(trace[i].at \o <<j>>, tw.wrappers) :
                                Cardinality({e \in EventsAt("enter", q) :
                                                trace[e].name = tw.name}) = 1

\* A finished walk of a Holder whose item is a sequence of two elements:
\* first, then element 1, then element 2, each entered and left in turn.
C17_Witness ==
    /\ Completed /\ root = "Holder" /\ Len(tree.c) = 3
    /\ At(tree, <<3>>).k = "vec" /\ Len(At(tree, <<3>>).c) = 2
    /\ \E a, b, c \in 1..Len(trace) :
        /\ a < b /\ b < c
        /\ trace[a].ev = "exit" /\ trace[a].at = <<2>>
        /\ trace[b].ev = "exit" /\ trace[b].at = <<3, 1>>
        /\ trace[c].ev = "enter" /\ trace[c].at = <<3, 2>>

(***************************************************************************)
(* C18: every statement sequence field that is present (Vec<Statement>,    *)
(* or Option<Vec<Statement>> with a value) is walked as enter_statements   *)
(* on the sequence, the walk of each statement in order, exit_statements   *)
(* on the sequence; enter_statements comes before the first hook of a      *)
(* statement, exit_statements after the last, and each is called exactly   *)
(* once, also for an empty sequence.                                       *)
(***************************************************************************)
\* The places of the statement sequences that are present in the fields of
\* the struct node at p
StatementSequences(p) ==
    LET fields == Lookup(types, At(tree, p).t).fields
    IN  {p \o <<j>> : j \in {j \in 1..Len(fields) :
                                fields[j].type = <<"Vec", "Statement">>}}
        \cup {p \o <<j, 1>> : j \in {j \in 1..Len(fields) :
                /\ fields[j].type = <<"Option", "Vec", "Statement">>
                /\ At(tree, p \o <<j>>).c # <<>>}}

StatementsHooks(ev, q) == {e \in EventsAt(ev, q) : trace[e].name = "statements"}

\* Events a..b bracket the walk of the sequence at q: in between are the
\* walks of its statements, one after the other, and nothing else; no hook
\* under the sequence is called outside.
IsStatementsBracket(a, b, q) ==
    /\ a < b
    /\ \A e \in 1..Len(trace) :
            (e # a /\ e # b /\ IsPrefix(q, trace[e].at)) <=> (a < e /\ e < b)
    /\ \A e \in (a + 1)..(b - 1) : Len(trace[e].at) > Len(q)
    /\ \A k \in 1..Len(At(tree, q).c) :
            \E x, y \in (a + 1)..(b - 1) :
                /\ x < y
                /\ trace[x] = Event("enter", "Statement", q \o <<k>>, -1, trace[a].depth)
                /\ trace[y] = Event("exit", "Statement", q \o <<k>>, -1, trace[a].depth)
                /\ \A e \in (a + 1)..(b - 1) :
                        IsPrefix(q \o <<k>>, trace[e].at) <=> (x <= e /\ e <= y)
                /\ k > 1 =>
                        \E w \in (a + 1)..(x - 1) :
                            trace[w] = Event("exit", "Statement", q \o <<k - 1>>, -1,
                                             trace[a].depth)

C18_StatementsBracketed ==
    \A i \in EventsToCheck :
        /\ IsStructHook(i, "exit") =>
                \A q \in StatementSequences(trace[i].at) :
                    /\ Cardinality(StatementsHooks("enter", q)) = 1
                    /\ Cardinality(StatementsHooks("exit", q)) = 1
                    /\ \A a \in StatementsHooks("enter", q) :
                       \A b \in StatementsHooks("exit", q) :
                            IsStatementsBracket(a, b, q)
        /\ (trace[i].ev = "exit" /\ trace[i].name = "statements") =>
                /\ At(tree, trace[i].at).k = "vec"
                /\ Cardinality(StatementsHooks("enter", trace[i].at)) = 1

\* A finished walk of a Holder whose statement sequence has two statements,
\* and a finished walk of one whose sequence is empty.
C18_Witness ==
    /\ Completed /\ root = "Holder" /\ Len(tree.c) = 3
    /\ Lookup(types, "Holder").fields[3].type = <<"Vec", "Statement">>
    /\ Len(At(tree, <<3>>).c) = 2
    /\ StatementsHooks("enter", <<3>>) # {}
    /\ StatementsHooks("exit", <<3>>) # {}

\* A finished walk of a struct with an empty statement sequence, whose two
\* hooks were called one after the other.
C18_WitnessEmpty ==
    /\ Completed /\ root = "Holder" /\ Len(tree.c) = 3
    /\ Lookup(types, "Holder").fields[3].type = <<"Vec", "Statement">>
    /\ At(tree, <<3>>).c = <<>>
    /\ \E a \in StatementsHooks("enter", <<3>>) : (a + 1) \in StatementsHooks("exit", <<3>>)

(***************************************************************************)
(* C19: the ancestor stack is changed only by the push_stack, retag_stack  *)
(* and pop_stack steps of the walk routines; a visitor hook gets the       *)
(* context read-only, and the stack right after a hook returns is the      *)
(* stack right before it was called.                                       *)
(***************************************************************************)
AtStackStep == AtInstr /\ Cur.op \in {"push", "retag", "pop"}

AtHook == AtInstr /\ Cur.op \in {"enter", "exit"}

C19_StackChangedOnlyByWalk ==
    [][/\ stack' # stack => AtStackStep
       /\ AtHook => stack' = stack]_vars

\* A hook of a visitor that modifies nodes has just returned while an entry
\* was on the stack.
C19_Witness ==
    /\ status = "walking" /\ visitor = "mark" /\ trace # <<>>
    /\ trace[Len(trace)].ev = "enter"
    /\ trace[Len(trace)].depth = 1
    /\ Len(stack) = 1
    /\ tree # original

(***************************************************************************)
(* C20: whenever the enter or exit hook of a node N is called and N was    *)
(* reached through field F of its nearest enclosing struct S (directly or  *)
(* through enum walks and statement sequence brackets), the top entry of   *)
(* the ancestor stack is the tag (S, F) with the position of S; the tag of *)
(* a struct itself is never on the stack during the struct's own hooks.    *)
(***************************************************************************)
\* The lengths of the proper prefixes of p that are places of struct nodes
EnclosingStructs(p) ==
    {n \in 0..(Len(p) - 1) : At(tree, SubSeq(p, 1, n)).k = "struct"}

C20_TopIsEnclosingFieldTag ==
    (status \in {"walking", "done", "hookPanicked"} /\ trace # <<>>
        /\ IsHook(Len(trace))) =>
        LET p == trace[Len(trace)].at IN
        /\ EnclosingStructs(p) = {} => stack = <<>>
        /\ EnclosingStructs(p) # {} =>
                LET n == Greatest(EnclosingStructs(p))
                    s == SubSeq(p, 1, n)
                IN  /\ stack # <<>>
                    /\ stack[Len(stack)] =
                            [tag |-> TagOfField(At(tree, s).t, p[n + 1]), node |-> s]
                    /\ Len(stack) = Cardinality(EnclosingStructs(p))
        /\ \A k \in 1..Len(stack) : stack[k].node # p

\* The enter hook of an IdentifierReference that is the left operand of a
\* BinaryExpression which is the expression of an ExpressionStatement has
\* just been called: the hook is three struct levels deep, reached through
\* the enum Expression.
C20_Witness ==
    /\ status = "walking" /\ root = "ExpressionStatement" /\ trace # <<>>
    /\ trace[Len(trace)].ev = "enter"
    /\ trace[Len(trace)].name = "IdentifierReference"
    /\ trace[Len(trace)].at = <<2, 1, 1, 2, 1, 1>>
    /\ Len(stack) = 2
    /\ stack[2] = [tag |-> TagOfField("BinaryExpression", 2), node |-> <<2, 1, 1>>]

(***************************************************************************)
(* C21: the walk routines of enums never push, retag or pop: at every hook *)
(* call the depth of the ancestor stack is the number of struct nodes with *)
(* a descendable field on the path from the root to the node visited (the  *)
(* node itself not counted), and every walk routine returns with the stack *)
(* depth it was called with.                                               *)
(***************************************************************************)
StackOps == {"push", "retag", "pop"}

\* The struct nodes with a descendable field above the node at p
StructsAbove(p) ==
    {n \in 0..(Len(p) - 1) :
        /\ At(tree, SubSeq(p, 1, n)).k = "struct"
        /\ DescendableSlots(At(tree, SubSeq(p, 1, n)).t) # {}}

\* The running routine has run its last statement and is about to return.
AtReturn == Running /\ Top.pc > Len(Code)

\* The enter hook calls the running routine made for its node: the first
\* statement of every routine, called at the depth the routine was called with
EnterOfTop ==
    {e \in EventsAt("enter", Top.node) : trace[e].name = Top.fn}

C21_EnumsLeaveStackAlone ==
    /\ walk.ok =>
            \A E \in EnumNames : \A k \in 1..Len(walk.fns[E]) :
                walk.fns[E][k].op \notin StackOps
    /\ \A i \in EventsToCheck :
            /\ IsHook(i) => trace[i].depth = Cardinality(StructsAbove(trace[i].at))
            /\ trace[i].ev \in StackOps => At(tree, trace[i].at).k = "struct"
    /\ AtReturn =>
            /\ EnterOfTop # {}
            /\ \A e \in EnterOfTop : Len(stack) = trace[e].depth

\* The walk routine of an enum that is the field of a struct is about to
\* return, one entry deep, after the routine of its payload has returned.
C21_Witness ==
    /\ AtReturn /\ At(tree, Top.node).k = "enum" /\ Top.fn = At(tree, Top.node).t
    /\ Len(stack) = 1
    /\ \E e \in EnterOfTop : trace[e].depth = 1
    /\ trace[Len(trace)].ev = "exit" /\ trace[Len(trace)].at = Top.node

(***************************************************************************)
(* C22: in a complete traversal with a visitor that does not modify the    *)
(* tree, the enter hook and the exit hook of every node are each called    *)
(* exactly once, enter before exit, and the hook calls are properly        *)
(* nested: a node is left after every node entered between its enter and   *)
(* its exit has been left.  An enum value of an inherited variant is a     *)
(* node of each enum whose routine it is passed through, with the hooks of *)
(* each of them.                                                           *)
(***************************************************************************)
RECURSIVE NodePlaces(_, _)
\* The places of the struct and enum nodes of the tree t, which is at path
NodePlaces(t, path) ==
    (IF t.k \in {"struct", "enum"} THEN {path} ELSE {})
        \cup UNION {NodePlaces(t.c[k], path \o <<k>>) : k \in 1..Len(t.c)}

\* The hook calls of one kind for the node of a type at a place
HooksOf(ev, name, q) == {e \in EventsAt(ev, q) : trace[e].name = name}

\* The (type, place) pairs some hook was called for
Visited == {<<trace[e].name, trace[e].at>> : e \in {e \in 1..Len(trace) : IsHook(e)}}

C22_EnterExitOnceAndNested ==
    (Completed /\ visitor = "noop") =>
        /\ \A q \in NodePlaces(tree, <<>>) : <<At(tree, q).t, q>> \in Visited
        /\ \A nq \in Visited :
                /\ Cardinality(HooksOf("enter", nq[1], nq[2])) = 1
                /\ Cardinality(HooksOf("exit", nq[1], nq[2])) = 1
                /\ \A a \in HooksOf("enter", nq[1], nq[2]) :
                   \A b \in HooksOf("exit", nq[1], nq[2]) :
                        /\ a < b
                        /\ \A c \in (a + 1)..(b - 1) :
                                trace[c].ev = "enter" =>
                                    \E d \in (c + 1)..(b - 1) :
                                        /\ trace[d].ev = "exit"
                                        /\ trace[d].name = trace[c].name
                                        /\ trace[d].at = trace[c].at

\* A finished walk, with the visitor of empty hooks, of a block whose
\* statement is an expression statement: structs, enums and a statement
\* sequence nested in one another.
C22_Witness ==
    /\ Completed /\ visitor = "noop" /\ root = "BlockStatement"
    /\ Len(At(tree, <<2>>).c) = 1
    /\ Cardinality(NodePlaces(tree, <<>>)) >= 5
    /\ HooksOf("exit", "statements", <<2>>) # {}
    /\ tree = original

(***************************************************************************)
(* C23: every retag_stack discriminant and every field offset that a       *)
(* generated walk routine refers to is the value the ancestor generator    *)
(* assigned to the same (struct, field) pair, the fields the walk routine  *)
(* descends into are the fields that have a tag, and a walk generator run  *)
(* on a catalogue the ancestor generator has not run on emits no undefined *)
(* discriminant or offset.                                                 *)
(***************************************************************************)
\* The instructions that compute the place of a field from an offset constant
OffsetOps == {"ifSome", "walk", "walkEach", "walkStatements", "eachTodo"}

\* The positions of the instructions of the routine of T with an op of a set
InstrsOf(T, ops) == {k \in 1..Len(walk.fns[T]) : walk.fns[T][k].op \in ops}

\* The offset constant the ancestor generator declared under a name
DeclaredOffsets(name) ==
    {k \in 1..Len(ancestor.offsetConsts) : ancestor.offsetConsts[k].name = name}

\* The slot of T whose field has the offset constant of instruction k
SlotOfInstr(T, k) ==
    LET fields == Lookup(types, T).fields
    IN  {j \in 1..Len(fields) : fields[j].offsetVarName = walk.fns[T][k].off}

\* After both generators: the routine of every struct refers to the offsets
\* and discriminants of its own tagged fields.
WalkRefersToAssignedValues ==
    status = "generated" =>
        \A T \in StructNames :
            LET code == walk.fns[T]
                fields == Lookup(types, T).fields
            IN  /\ \A k \in InstrsOf(T, OffsetOps) :
                    /\ Cardinality(DeclaredOffsets(code[k].off)) = 1
                    /\ \E j \in DescendableSlots(T) :
                        /\ SlotOfInstr(T, k) = {j}
                        /\ \A o \in DeclaredOffsets(code[k].off) :
                            /\ ancestor.offsetConsts[o].type = T
                            /\ ancestor.offsetConsts[o].field = fields[j].rawName
                /\ InstrsOf(T, {"todo"}) = {} =>
                        UNION {SlotOfInstr(T, k) : k \in InstrsOf(T, OffsetOps)}
                            = DescendableSlots(T)
                /\ \A k \in InstrsOf(T, {"retag"}) :
                        \E h \in {k - 1, k + 1} \cap InstrsOf(T, OffsetOps) :
                            \A j \in SlotOfInstr(T, h) : code[k].disc = TagOfField(T, j)
                /\ \A k \in InstrsOf(T, {"push"}) :
                        /\ DescendableSlots(T) # {}
                        /\ code[k].variant =
                                <<T, fields[Least(DescendableSlots(T))].name>>
                        /\ \E v \in 1..Len(ancestor.enumVariants) :
                                ancestor.enumVariants[v].name = code[k].variant

\* After the walk generator alone: no routine refers to an undefined
\* discriminant or offset.
NoUndefinedEmitted ==
    status = "walkOnly" =>
        \A T \in StructNames :
            /\ \A k \in InstrsOf(T, {"retag"}) : walk.fns[T][k].disc # -1
            /\ \A k \in InstrsOf(T, OffsetOps) : walk.fns[T][k].off # <<>>

C23_WalkUsesAssignedTagsAndOffsets ==
    WalkRefersToAssignedValues /\ NoUndefinedEmitted

(***************************************************************************)
(* C24: for every enum each runtime variant is matched by exactly one arm  *)
(* of the match of its walk routine: the own variants and the variant sets *)
(* of the inherited bases are pairwise disjoint in the arms, also when two *)
(* inherited bases share a base or a base is reached along two paths, so   *)
(* the routine a value is passed to does not depend on the order of the    *)
(* arms.                                                                   *)
(***************************************************************************)
\* The arms of the match of the routine of E whose patterns have a variant
ArmsMatching(E, variantName) ==
    UNION {{a \in 1..Len(walk.fns[E][k].arms) :
                variantName \in Range(walk.fns[E][k].arms[a].patterns)} :
           k \in InstrsOf(E, {"match"})}

C24_OneArmPerVariant ==
    status = "generated" =>
        \A E \in EnumNames :
            \A variant \in allVariants(types, E, Len(types)) :
                Cardinality(ArmsMatching(E, variant.name)) = 1

(***************************************************************************)
(* The catalogue parser: getTypesFromCode of parse.mjs on one declaration  *)
(* marked #[visited_node].  A line of the body is modelled by what the     *)
(* regular expressions and string tests of the parser look at: the kind of *)
(* text it is and the pieces the capture groups take out of it.            *)
(***************************************************************************)
MaxLines == 3

\* A line of a declaration body
SourceLine(kind, name, rawName, rawType) ==
    [kind |-> kind, name |-> name, rawName |-> rawName, rawType |-> rawType]

\* The lines a body is written with: two variants, two @inherit lines, two
\* fields (one with a raw identifier), an attribute on one line, the first
\* and the last line of an attribute written over several lines, a comment,
\* an empty line and a line of none of these kinds
BodyLines ==
    {SourceLine("variant", "Identifier", "", <<"Box", "'a", "IdentifierReference", "'a">>),
     SourceLine("variant", "Binary", "", <<"Box", "'a", "BinaryExpression", "'a">>),
     SourceLine("inherit", "Expression", "", <<>>),
     SourceLine("inherit", "MemberExpression", "", <<>>),
     SourceLine("field", "span", "span", <<"Span">>),
     SourceLine("field", "type", "r#type", <<"Option", "Expression", "'a">>),
     SourceLine("attr", "", "", <<>>),
     SourceLine("attrOpen", "", "", <<>>),
     SourceLine("attrClose", "", "", <<>>),
     SourceLine("comment", "", "", <<>>),
     SourceLine("blank", "", "", <<>>),
     SourceLine("other", "", "", <<>>)}

RECURSIVE Bodies(_)
\* The bodies of at most n lines
Bodies(n) ==
    IF n = 0 THEN {<<>>}
    ELSE LET shorter == Bodies(n - 1) IN
         shorter \cup {Append(b, l) : b \in {c \in shorter : Len(c) = n - 1}, l \in BodyLines}

Declarations ==
    {[kind |-> k, name |-> "Node", lines |-> b] : k \in {"enum", "struct"}, b \in Bodies(MaxLines)}

\* line.replace(/\/\/.*$/, '').replace(/\s+/g, ' ').trim(), compared with ''
isEmptyLine(line) == line.kind \in {"comment", "blank"}

\* The while loop that fills itemLines
itemLines(lines) == SelectSeq(lines, LAMBDA line : ~isEmptyLine(line))

\* line.match(/^(.+?)\((.+?)\)(?: ?= ?(\d+))?,$/)
matchVariant(line) == line.kind = "variant"

\* line.match(/^@inherit ([A-Za-z]+)$/)
matchInherit(line) == line.kind = "inherit"

\* line.match(/^pub ((?:r#)?([a-z_]+)): (.+),(?: ?\/\/.+)?$/)
matchField(line) == line.kind = "field"

\* line.startsWith('#[')
startsWithAttr(line) == line.kind \in {"attr", "attrOpen"}

\* line.endsWith(']')
endsWithBracket(line) == line.kind \in {"attr", "attrClose"}

\* type.replace(/<'a>/g, '').replace(/<'a, ?/g, '<')
stripLifetimes(rawType) == SelectSeq(rawType, LAMBDA t : t # "'a")

NoItems == [error |-> "", variants |-> <<>>, inherits |-> <<>>, fields |-> <<>>]

RECURSIVE enumLoop(_, _, _)
\* for (const line of itemLines) of the enum branch
enumLoop(items, i, acc) ==
    IF i > Len(items) THEN acc
    ELSE IF matchVariant(items[i])
    THEN enumLoop(items, i + 1,
                  [acc EXCEPT !.variants =
                       Append(@, Variant(items[i].name, stripLifetimes(items[i].rawType)))])
    ELSE IF matchInherit(items[i])
    THEN enumLoop(items, i + 1, [acc EXCEPT !.inherits = Append(@, items[i].name)])
    ELSE [acc EXCEPT !.error = "assertionFailed"]

\* A line that is taken for a field without the assert
structFieldUnchecked(line, acc) ==
    IF matchField(line)
    THEN [acc EXCEPT !.fields =
              Append(@, [Field(line.name, stripLifetimes(line.rawType))
                             EXCEPT !.rawName = line.rawName, !.rawType = line.rawType])]
    ELSE acc

\* The match, the assert and the push of the struct branch for one line
structField(line, acc) ==
    IF matchField(line)
    THEN [acc EXCEPT !.fields =
              Append(@, [Field(line.name, stripLifetimes(line.rawType))
                             EXCEPT !.rawName = line.rawName, !.rawType = line.rawType])]
    ELSE [acc EXCEPT !.error = "assertionFailed"]

RECURSIVE structLoop(_, _, _)
\* for (let i = 0; i < itemLines.length; i++) of the struct branch; the inner
\* while loop reads itemLines[i] past the end when no line ends with ']', and
\* undefined.endsWith throws a TypeError
structLoop(items, i, acc) ==
    IF i > Len(items) THEN acc
    ELSE IF startsWithAttr(items[i])
    THEN LET closing == {j \in i..Len(items) : endsWithBracket(items[j])} IN
         IF closing = {} THEN [acc EXCEPT !.error = "typeError"]
         ELSE structLoop(items, (CHOOSE j \in closing : \A k \in closing : j <= k) + 1, acc)
    ELSE LET next == structField(items[i], acc) IN
         IF next.error # "" THEN next ELSE structLoop(items, i + 1, next)

\* What getTypesFromCode makes of one declaration: the error it stops with,
\* or "" and the catalogue entry
getTypesFromCode(decl) ==
    LET items == itemLines(decl.lines) IN
    IF decl.kind = "enum"
    THEN LET r == enumLoop(items, 1, NoItems) IN
         [error |-> r.error, type |-> Enum(decl.name, r.variants, r.inherits)]
    ELSE LET r == structLoop(items, 1, NoItems) IN
         [error |-> r.error, type |-> Struct(decl.name, r.fields)]

InitParse ==
    /\ source \in Declarations
    /\ types = <<>>
    /\ ancestor = NoAncestor
    /\ walk = NoWalk
    /\ status = "source"
    /\ root = ""
    /\ visitor = ""
    /\ tree = NoTree
    /\ original = NoTree
    /\ stack = <<>>
    /\ frames = <<>>
    /\ trace = <<>>

GetTypesFromCode ==
    /\ status = "source"
    /\ LET parsed == getTypesFromCode(source) IN
       /\ types' = IF parsed.error = "" THEN <<parsed.type>> ELSE <<>>
       /\ status' = IF parsed.error = "" THEN "catalogue" ELSE parsed.error
    /\ UNCHANGED <<source, ancestor, walk, root, visitor, tree, original, stack, frames, trace>>

NextParse == GetTypesFromCode

SpecParse == InitParse /\ [][NextParse]_vars

(***************************************************************************)
(* C25: the catalogue parser records the variants and the inherited bases  *)
(* of an enum and the fields of a struct in the order they appear in the   *)
(* source text, and a body line that is neither an attribute, a variant,   *)
(* an @inherit line nor a field aborts parsing with an assertion failure   *)
(* instead of being skipped.  The body lines are the lines with text left  *)
(* once comments are removed; in a struct the lines from one that opens    *)
(* an attribute to the first that ends with a bracket are the attribute.   *)
(***************************************************************************)
RECURSIVE Ascending(_)
\* The numbers of a set, smallest first
Ascending(S) ==
    IF S = {} THEN <<>>
    ELSE LET m == CHOOSE x \in S : \A y \in S : x <= y IN <<m>> \o Ascending(S \ {m})

\* The lines of the body that have text
TextLines == {i \in 1..Len(source.lines) : source.lines[i].kind \notin {"comment", "blank"}}

\* Line i of a struct body belongs to an attribute: an earlier line, or the
\* line itself, opens one and no line from there to the line before i ends it
AttributeText(i) ==
    /\ source.kind = "struct"
    /\ \E o \in TextLines :
           /\ o <= i
           /\ source.lines[o].kind \in {"attr", "attrOpen"}
           /\ \A c \in TextLines : (o <= c /\ c < i) =>
                  source.lines[c].kind \notin {"attr", "attrClose"}

\* The lines of a kind outside attributes, in the order of the text
LinesOfKind(kind) ==
    Ascending({i \in TextLines : source.lines[i].kind = kind /\ ~AttributeText(i)})

\* A line that is neither an attribute, a variant, an @inherit line nor a field
Unrecognised(i) ==
    /\ i \in TextLines
    /\ ~AttributeText(i)
    /\ source.lines[i].kind \notin {"attr", "attrOpen", "attrClose", "variant", "inherit", "field"}

RecordedInOrder ==
    (source # NoSource /\ status = "catalogue") =>
        LET type == types[1]
            vs == LinesOfKind("variant")
            is == LinesOfKind("inherit")
            fs == LinesOfKind("field")
        IN  IF source.kind = "enum"
            THEN /\ type.kind = "enum"
                 /\ Len(type.variants) = Len(vs)
                 /\ \A k \in 1..Len(vs) :
                        /\ type.variants[k].name = source.lines[vs[k]].name
                        /\ type.variants[k].type =
                               SelectSeq(source.lines[vs[k]].rawType, LAMBDA t : t # "'a")
                 /\ Len(type.inherits) = Len(is)
                 /\ \A k \in 1..Len(is) : type.inherits[k] = source.lines[is[k]].name
            ELSE /\ type.kind = "struct"
                 /\ Len(type.fields) = Len(fs)
                 /\ \A k \in 1..Len(fs) :
                        /\ type.fields[k].name = source.lines[fs[k]].name
                        /\ type.fields[k].rawName = source.lines[fs[k]].rawName
                        /\ type.fields[k].rawType = source.lines[fs[k]].rawType
                        /\ type.fields[k].type =
                               SelectSeq(source.lines[fs[k]].rawType, LAMBDA t : t # "'a")

UnrecognisedLineAborts ==
    (source # NoSource /\ status # "source" /\ \E i \in 1..Len(source.lines) : Unrecognised(i)) =>
        status = "assertionFailed"

C25_ParserKeepsOrderAndAsserts == RecordedInOrder /\ UnrecognisedLineAborts

\* A struct body with a line of no known kind after a field and a comment:
\* parsing stopped at the assert
C25_Witness ==
    /\ status = "assertionFailed"
    /\ source.kind = "struct"
    /\ Len(source.lines) = 3
    /\ source.lines[1].kind = "field"
    /\ source.lines[2].kind = "comment"
    /\ source.lines[3].kind = "other"

\* An enum body of an @inherit line between two different variants, parsed
C25_WitnessOrder ==
    /\ status = "catalogue"
    /\ source.kind = "enum"
    /\ Len(source.lines) = 3
    /\ source.lines[1].kind = "variant"
    /\ source.lines[2].kind = "inherit"
    /\ source.lines[3].kind = "variant"
    /\ source.lines[1].name # source.lines[3].name
    /\ Len(types[1].variants) = 2
    /\ types[1].variants[1].name = source.lines[1].name

\* A struct body whose second field follows an attribute written over two lines
C25_WitnessAttribute ==
    /\ status = "catalogue"
    /\ source.kind = "struct"
    /\ Len(source.lines) = 3
    /\ source.lines[1].kind = "attrOpen"
    /\ source.lines[2].kind = "attrClose"
    /\ source.lines[3].kind = "field"
    /\ Len(types[1].fields) = 1

====
